---- MODULE Spec2Model ----
(***************************************************************************)
(* Callback dispatch core of the repository.                               *)
(*                                                                         *)
(*   Spec     CallbackManager / AsyncCallbackManager event dispatch        *)
(*            (src/langchain/callbacks/manager.py)                         *)
(*   SpecGen  BaseChatModel.generate / agenerate and the events they       *)
(*            dispatch on the run manager                                  *)
(*            (src/langchain/chat_models/base.py), with the traced work    *)
(*            being either an opaque _generate or the Bedrock invoke /     *)
(*            stream (src/libs/community/langchain_community/llms/beam.py) *)
(*   SpecBridge     one handler list registered with both managers, and    *)
(*            the calls each handler receives through either               *)
(*   SpecRuns       runs nested through get_child and traced by            *)
(*            LangChainTracer (src/libs/core/langchain_core/tracers/       *)
(*            langchain.py)                                                *)
(*   SpecConfigure  the configure call at the top of generate / agenerate  *)
(*   SpecLog        log_error_once called from the tracer's executor       *)
(*            threads                                                      *)
(*   SpecEmbed      the four entry points of Embeddings                    *)
(*            (src/libs/core/langchain_core/embeddings.py)                 *)
(*   SpecEntry      generate / agenerate and the embeddings entry points   *)
(*            side by side                                                 *)
(*   SpecShare      managers constructed over one handler list             *)
(*   SpecMutate     a dispatch during which the handler list is changed    *)
(*   SpecTracer     the functions LangChainTracer submits to its executor  *)
(*            and wait_for_all_tracers                                     *)
(*   SpecUrl        LangChainTracer.get_run_url                            *)
(*   SpecTot        ToTChain.solve with ToTMemory and ToTController        *)
(*            (src/langchain/chains/tot/base.py)                           *)
(*   SpecWandb      the counters of WandbCallbackHandler                   *)
(*            (src/langchain/callbacks/wandb_callback.py)                  *)
(***************************************************************************)
EXTENDS Integers, Sequences, FiniteSets, TLC

VARIABLES
    \* ---- callback managers (manager.py) ----
    is_async,     \* TRUE: AsyncCallbackManager, FALSE: CallbackManager
    handlers,     \* self.handlers: the ordered handler list
    d_pc,         \* position of the dispatch: "idle", "loop", "in_handler", "gather"
    d_event,      \* event_name of the current (or last) dispatch
    d_verbose,    \* the verbose argument of the current (or last) dispatch
    d_i,          \* sync manager: 1-based position of the for loop in self.handlers
    d_invoked,    \* positions whose event method was invoked in this dispatch, in order
    d_outcome,    \* how the last dispatch left its caller: "none", "returned", "raised"
    tasks,        \* async manager: one coroutine per handler, handed to asyncio.gather
    \* ---- BaseChatModel.generate / agenerate (chat_models/base.py) ----
    g_cfg,        \* the inputs of one call
    g_pc,         \* position inside generate / agenerate
    g_events,     \* events dispatched on the run manager, in order
    g_exc,        \* the exception caught or leaving the call ("none" while there is none)
    g_block,      \* number of _generate calls the running block has completed
    g_results,    \* the local variable `results`: whether it is bound, and its value
    b_pc,         \* position inside the Bedrock work ("off" when it is not running)
    b_chunks,     \* chunks of the Bedrock response stream still to be read
    \* ---- one handler list registered with both managers (manager.py) ----
    br_handlers,  \* the handler list handed to CallbackManager and AsyncCallbackManager
    br_sync,      \* per list position: the calls received through CallbackManager
    br_async,     \* per list position: the calls received through AsyncCallbackManager
    \* ---- runs traced by a LangChainTracer (tracers/langchain.py) ----
    r_tracer_tags, \* LangChainTracer.tags
    r_runs,       \* the Run objects the tracer has built, in creation order
    r_mgr,        \* the manager returned by get_child and not yet used, or NoManager
    r_origin,     \* per run: the run whose component was executing when it started,
                  \* the tags of the manager handed in, the tags of the call
    r_posted,     \* the run dictionaries handed to client.create_run
    \* ---- CallbackManager.configure (spec 4.5) ----
    cf_call,      \* the last configure call: its arguments and the manager it returned
    \* ---- log_error_once and the executor threads (tracers/langchain.py) ----
    lg_threading, \* use_threading of the tracer: its functions run on executor threads
    lg_logged,    \* the module global _LOGGED
    lg_records,   \* the records handed to logger.error, in order
    lg_threads,   \* per thread: where it is inside log_error_once, and with which arguments
    lg_failed,    \* the failures so far, in order: (method, exception type)
    \* ---- Embeddings.embed_documents and its siblings (embeddings.py) ----
    e_cfg,        \* the inputs of one call
    e_pc,         \* position inside the entry point
    e_events,     \* events dispatched on the manager (rm 0) and on run manager rm, in order
    e_exc,        \* the exception the work raised ("none" while there is none)
    e_result,     \* the local variable `result`: whether it is bound, and its length
    e_done,       \* run managers the terminal event has been dispatched on
    \* ---- managers built over one handler list (manager.py) ----
    sh_lists,     \* the list objects: each a sequence of handlers
    sh_ref,       \* per manager: the list object its self.handlers is bound to
    \* ---- a dispatch during which the handler list is changed (manager.py) ----
    m_async,      \* TRUE: AsyncCallbackManager, FALSE: CallbackManager
    m_handlers,   \* self.handlers, the live list
    m_start,      \* the content of self.handlers when the dispatch call was made
    m_pc,         \* position of the dispatch: "idle", "loop", "in_handler", "gather", "over"
    m_i,          \* sync manager: 1-based position of the list iterator
    m_verbose,    \* the verbose argument of the dispatch
    m_delivered,  \* the handlers whose event method was invoked, in order
    m_tasks,      \* async manager: the coroutines handed to asyncio.gather
    \* ---- the functions a LangChainTracer submits, and wait_for_all_tracers (tracers/langchain.py) ----
    t_threading,  \* use_threading of the tracers
    t_tasks,      \* the functions handed to _submit, in order: kind, run, state
    t_pc,         \* "idle", or "in_callback" while a function runs on the caller's thread
    t_wait,       \* wait_for_all_tracers: 0 not called, k waiting for tracer k, past the last tracer: returned
    t_before,     \* the number of functions submitted when wait_for_all_tracers was called
    \* ---- LangChainTracer.get_run_url (tracers/langchain.py) ----
    u_latest,     \* self.latest_run, NoLatestRun for None
    u_pc,         \* "idle" or "attempting" inside get_run_url
    u_seen,       \* self.latest_run as tested on entry of the last get_run_url call
    u_outcomes,   \* outcomes of the client.get_run_url calls of the last get_run_url call
    u_result,     \* what the last get_run_url call returned or raised
    \* ---- ToTChain.solve with its ToTMemory and ToTController (chains/tot/base.py) ----
    tot_c,        \* ToTController.c
    tot_stack,    \* ToTMemory.stack, bottom first: positions in tot_nodes
    tot_nodes,    \* every Result stored so far: solution_type and children
    tot_pc,       \* "solving", "solved" or "exhausted"
    \* ---- the counters of a WandbCallbackHandler (callbacks/wandb_callback.py) ----
    w_meta,       \* the counters kept by BaseMetadataCallbackHandler
    w_events,     \* the number of events the handler has received
    w_raised      \* the body of the last event method raised after its counters were updated

dvars == <<is_async, handlers, d_pc, d_event, d_verbose, d_i, d_invoked, d_outcome, tasks>>
gvars == <<g_cfg, g_pc, g_events, g_exc, g_block, g_results, b_pc, b_chunks>>
brvars == <<br_handlers, br_sync, br_async>>
rvars == <<r_tracer_tags, r_runs, r_mgr, r_origin, r_posted>>
cfvars == <<cf_call>>
lgvars == <<lg_threading, lg_logged, lg_records, lg_threads, lg_failed>>
evars == <<e_cfg, e_pc, e_events, e_exc, e_result, e_done>>
shvars == <<sh_lists, sh_ref>>
mvars == <<m_async, m_handlers, m_start, m_pc, m_i, m_verbose, m_delivered, m_tasks>>
tvars == <<t_threading, t_tasks, t_pc, t_wait, t_before>>
uvars == <<u_latest, u_pc, u_seen, u_outcomes, u_result>>
totvars == <<tot_c, tot_stack, tot_nodes, tot_pc>>
wvars == <<w_meta, w_events, w_raised>>
vars == <<dvars, gvars, brvars, rvars, cfvars, lgvars, evars, shvars, mvars, tvars, uvars, totvars, wvars>>

\* what the actions of one part of the model leave alone
nondvars == <<gvars, brvars, rvars, cfvars, lgvars, evars, shvars, mvars, tvars, uvars, totvars, wvars>>
nongvars == <<dvars, brvars, rvars, cfvars, lgvars, evars, shvars, mvars, tvars, uvars, totvars, wvars>>
nonbrvars == <<dvars, gvars, rvars, cfvars, lgvars, evars, shvars, mvars, tvars, uvars, totvars, wvars>>
nonrvars == <<dvars, gvars, brvars, cfvars, lgvars, evars, shvars, mvars, tvars, uvars, totvars, wvars>>
noncfvars == <<dvars, gvars, brvars, rvars, lgvars, evars, shvars, mvars, tvars, uvars, totvars, wvars>>
nonlgvars == <<dvars, gvars, brvars, rvars, cfvars, evars, shvars, mvars, tvars, uvars, totvars, wvars>>
nonevars == <<dvars, gvars, brvars, rvars, cfvars, lgvars, shvars, mvars, tvars, uvars, totvars, wvars>>
nonshvars == <<dvars, gvars, brvars, rvars, cfvars, lgvars, evars, mvars, tvars, uvars, totvars, wvars>>
nonmvars == <<dvars, gvars, brvars, rvars, cfvars, lgvars, evars, shvars, tvars, uvars, totvars, wvars>>
nontvars == <<dvars, gvars, brvars, rvars, cfvars, lgvars, evars, shvars, mvars, uvars, totvars, wvars>>
nonuvars == <<dvars, gvars, brvars, rvars, cfvars, lgvars, evars, shvars, mvars, tvars, totvars, wvars>>
nontotvars == <<dvars, gvars, brvars, rvars, cfvars, lgvars, evars, shvars, mvars, tvars, uvars, wvars>>
nonwvars == <<dvars, gvars, brvars, rvars, cfvars, lgvars, evars, shvars, mvars, tvars, uvars, totvars>>

-----------------------------------------------------------------------------
(* Bounds *)

\* longest handler list a manager holds
MaxHandlers == 3

\* most message lists handed to one generate / agenerate call
MaxMessages == 2

\* most chunks in one Bedrock response stream
MaxChunks == 2

\* most handlers in one callbacks argument of configure
MaxCallbacks == 2

-----------------------------------------------------------------------------
(* Handlers: the objects the caller registers.  A handler is seen by the    *)
(* managers only through its four flags and its event methods.              *)

\*   h_trace    records everything, always verbose
\*   h_nollm    ignores the LLM events, always verbose
\*   h_nochain  ignores the chain events, always verbose, coroutine methods
\*   h_quiet    ignores the tool and agent events, fires only when the caller
\*              is verbose, coroutine methods
\*   h_broken   always verbose; its event methods may raise
HandlerObjs == {"h_trace", "h_nollm", "h_nochain", "h_quiet", "h_broken"}

\* handler.always_verbose
always_verbose(h) == h \in {"h_trace", "h_nollm", "h_nochain", "h_broken"}

\* handler.ignore_llm
ignore_llm(h) == h = "h_nollm"

\* handler.ignore_chain
ignore_chain(h) == h = "h_nochain"

\* handler.ignore_agent
ignore_agent(h) == h = "h_quiet"

\* the handlers whose event methods are defined with async def
CoroutineHandlers == {"h_nochain", "h_quiet"}

\* asyncio.iscoroutinefunction(getattr(handler, event_name))
EveryMethodIsCoroutine(h) == TRUE
iscoroutinefunction(h) == h \in CoroutineHandlers

\* the handler's event methods can raise (a broken tracing handler)
CanRaise(h) == h = "h_broken"

\* the event methods of the managers
LLMEvents == {"on_llm_start", "on_llm_new_token", "on_llm_end", "on_llm_error"}
ChainEvents == {"on_chain_start", "on_chain_end", "on_chain_error"}
ToolEvents == {"on_tool_start", "on_tool_end", "on_tool_error"}
AgentEvents == {"on_agent_action", "on_agent_finish"}
Events == LLMEvents \cup ChainEvents \cup ToolEvents \cup AgentEvents \cup {"on_text"}

\* the ignore_condition_name each on_* method hands to _handle_event
IgnoreConditionName(ev) ==
    CASE ev \in LLMEvents -> "ignore_llm"
      [] ev \in ChainEvents -> "ignore_chain"
      [] ev \in ToolEvents \cup AgentEvents -> "ignore_agent"
      [] OTHER -> "None"

\* getattr(handler, ignore_condition_name)
GetIgnore(h, name) ==
    CASE name = "ignore_llm" -> ignore_llm(h)
      [] name = "ignore_chain" -> ignore_chain(h)
      [] name = "ignore_agent" -> ignore_agent(h)

\* the first test of _handle_event / _ahandle_event_for_handler
PassesIgnore(h, name) == IF name = "None" THEN TRUE ELSE ~GetIgnore(h, name)

\* the second test of _handle_event / _ahandle_event_for_handler
PassesVerbose(h, verbose) == verbose \/ always_verbose(h)

Eligible(h, ev, verbose) ==
    PassesIgnore(h, IgnoreConditionName(ev)) /\ PassesVerbose(h, verbose)

HandlerLists == UNION {[1..n -> HandlerObjs] : n \in 0..MaxHandlers}

-----------------------------------------------------------------------------
(* CallbackManager: synchronous dispatch *)

\* a local variable that has not been assigned
Unbound == [bound |-> FALSE, val |-> <<>>]
Bound(v) == [bound |-> TRUE, val |-> v]

GenIdle ==
    /\ g_cfg = [kind |-> "off"]
    /\ g_pc = "off" /\ g_events = <<>> /\ g_exc = "none"
    /\ g_block = 0 /\ g_results = Unbound /\ b_pc = "off" /\ b_chunks = <<>>

InitDispatch ==
    /\ is_async \in BOOLEAN
    /\ handlers \in HandlerLists
    /\ d_pc = "idle"
    /\ d_event = "on_text"
    /\ d_verbose = FALSE
    /\ d_i = 0
    /\ d_invoked = <<>>
    /\ d_outcome = "none"
    /\ tasks = <<>>

DispatchIdle ==
    /\ is_async = FALSE /\ handlers = <<>> /\ d_pc = "idle" /\ d_event = "on_text"
    /\ d_verbose = FALSE /\ d_i = 0 /\ d_invoked = <<>> /\ d_outcome = "none"
    /\ tasks = <<>>

BridgeIdle == br_handlers = <<>> /\ br_sync = <<>> /\ br_async = <<>>

NoManager == [kind |-> "none"]

RunsIdle ==
    /\ r_tracer_tags = {} /\ r_runs = <<>> /\ r_mgr = NoManager
    /\ r_origin = <<>> /\ r_posted = <<>>

ConfigureIdle ==
    cf_call = [kind |-> "none"]

LogIdle ==
    lg_threading = FALSE /\ lg_logged = {} /\ lg_records = <<>> /\ lg_threads = <<>> /\ lg_failed = <<>>

EmbedIdle ==
    e_cfg = [kind |-> "off"] /\ e_pc = "off" /\ e_events = <<>> /\ e_exc = "none" /\ e_result = [bound |-> FALSE, val |-> <<>>] /\ e_done = {}

ShareIdle ==
    sh_lists = <<>> /\ sh_ref = <<>>

MutateIdle ==
    m_async = FALSE /\ m_handlers = <<>> /\ m_start = <<>> /\ m_pc = "off" /\ m_i = 0 /\ m_verbose = FALSE /\ m_delivered = <<>> /\ m_tasks = <<>>

TracerIdle ==
    t_threading = FALSE /\ t_tasks = <<>> /\ t_pc = "off" /\ t_wait = 0 /\ t_before = 0

UrlIdle ==
    u_latest = 0 /\ u_pc = "off" /\ u_seen = 0 /\ u_outcomes = <<>> /\ u_result = [kind |-> "none", run |-> 0]

TotIdle ==
    tot_c = 0 /\ tot_stack = <<>> /\ tot_nodes = <<>> /\ tot_pc = "off"

WandbIdle ==
    w_meta = <<>> /\ w_events = 0 /\ w_raised = FALSE

\* every part of the model but the named one is at rest
IdleExcept(part) ==
    /\ IF part = "dispatch" THEN TRUE ELSE DispatchIdle
    /\ IF part = "generate" THEN TRUE ELSE GenIdle
    /\ IF part = "bridge" THEN TRUE ELSE BridgeIdle
    /\ IF part = "runs" THEN TRUE ELSE RunsIdle
    /\ IF part = "configure" THEN TRUE ELSE ConfigureIdle
    /\ IF part = "log" THEN TRUE ELSE LogIdle
    /\ IF part = "embed" THEN TRUE ELSE EmbedIdle
    /\ IF part = "share" THEN TRUE ELSE ShareIdle
    /\ IF part = "mutate" THEN TRUE ELSE MutateIdle
    /\ IF part = "tracer" THEN TRUE ELSE TracerIdle
    /\ IF part = "url" THEN TRUE ELSE UrlIdle
    /\ IF part = "tot" THEN TRUE ELSE TotIdle
    /\ IF part = "wandb" THEN TRUE ELSE WandbIdle

Init == InitDispatch /\ IdleExcept("dispatch")

\* for handler in self.handlers: the list position visited by iteration i
LoopPosReversed(hs, i) == Len(hs) + 1 - i
LoopPos(hs, i) == i

\* the handler the loop of _handle_event is at
CurHandler == handlers[LoopPos(handlers, d_i)]

\* CallbackManager.on_*: enter _handle_event, before the first iteration
SyncDispatch(ev, verbose) ==
    /\ ~is_async /\ d_pc = "idle"
    /\ d_pc' = "loop"
    /\ d_event' = ev /\ d_verbose' = verbose
    /\ d_i' = 1 /\ d_invoked' = <<>> /\ d_outcome' = "none"
    /\ UNCHANGED <<is_async, handlers, tasks, nondvars>>

\* for handler in self.handlers: a handler that fails one of the two tests
SyncSkip ==
    /\ d_pc = "loop" /\ d_i <= Len(handlers)
    /\ ~Eligible(CurHandler, d_event, d_verbose)
    /\ d_i' = d_i + 1
    /\ UNCHANGED <<is_async, handlers, d_pc, d_event, d_verbose, d_invoked, d_outcome, tasks, nondvars>>

\* getattr(handler, event_name)(*args, **kwargs): the call is made
SyncInvoke ==
    /\ d_pc = "loop" /\ d_i <= Len(handlers)
    /\ Eligible(CurHandler, d_event, d_verbose)
    /\ d_pc' = "in_handler"
    /\ d_invoked' = Append(d_invoked, LoopPos(handlers, d_i))
    /\ UNCHANGED <<is_async, handlers, d_event, d_verbose, d_i, d_outcome, tasks, nondvars>>

\* the handler's event method returns: next iteration
SyncHandlerReturns ==
    /\ d_pc = "in_handler"
    /\ d_pc' = "loop" /\ d_i' = d_i + 1
    /\ UNCHANGED <<is_async, handlers, d_event, d_verbose, d_invoked, d_outcome, tasks, nondvars>>

\* where an exception raised by the event method goes: _handle_event has no
\* try/except, so it leaves the loop and the on_* method
AfterHandlerRaised == [pc |-> "idle", i |-> d_i, outcome |-> "raised"]

\* the handler's event method raises
SyncHandlerRaises ==
    /\ d_pc = "in_handler" /\ CanRaise(CurHandler)
    /\ d_pc' = AfterHandlerRaised.pc
    /\ d_i' = AfterHandlerRaised.i
    /\ d_outcome' = AfterHandlerRaised.outcome
    /\ UNCHANGED <<is_async, handlers, d_event, d_verbose, d_invoked, tasks, nondvars>>

\* the loop is exhausted: _handle_event and the on_* method return None
SyncReturn ==
    /\ d_pc = "loop" /\ d_i > Len(handlers)
    /\ d_pc' = "idle" /\ d_outcome' = "returned"
    /\ UNCHANGED <<is_async, handlers, d_event, d_verbose, d_i, d_invoked, tasks, nondvars>>

\* the record the model keeps of a finished dispatch is dropped when the caller
\* goes on to something else
ForgetDispatch ==
    /\ d_i' = 0 /\ d_invoked' = <<>> /\ d_outcome' = "none" /\ tasks' = <<>>

\* self.handlers.append(handler)
add_handler(h) ==
    /\ d_pc = "idle" /\ Len(handlers) < MaxHandlers
    /\ handlers' = Append(handlers, h)
    /\ ForgetDispatch
    /\ UNCHANGED <<is_async, d_pc, d_event, d_verbose, nondvars>>

-----------------------------------------------------------------------------
(* AsyncCallbackManager: asyncio.gather over one coroutine per handler *)

\* states of one _ahandle_event_for_handler coroutine:
\*   "pending"    created by gather, first step not yet run
\*   "awaiting"   await event(*args, **kwargs): the coroutine method is running
\*   "executing"  await run_in_executor(None, partial(event, ...)): offloaded
\*   "done"       the coroutine returned
\*   "failed"     the coroutine ended with the exception of the event method
Started(ts, k) == ts[k].st # "pending"
Running(ts, k) == ts[k].st \in {"awaiting", "executing"}

\* the event loop runs the first steps of the tasks in the order gather created them
FirstPending(ts) ==
    IF \E k \in 1..Len(ts) : ~Started(ts, k)
    THEN CHOOSE k \in 1..Len(ts) : ~Started(ts, k) /\ \A j \in 1..(k - 1) : Started(ts, j)
    ELSE 0

\* AsyncCallbackManager.on_*: _handle_event builds the coroutines from
\* self.handlers and hands them to asyncio.gather
AsyncDispatch(ev, verbose) ==
    /\ is_async /\ d_pc = "idle"
    /\ d_pc' = "gather"
    /\ d_event' = ev /\ d_verbose' = verbose
    /\ d_invoked' = <<>> /\ d_outcome' = "none"
    /\ tasks' = [k \in 1..Len(handlers) |-> [h |-> handlers[k], st |-> "pending"]]
    /\ UNCHANGED <<is_async, handlers, d_i, nondvars>>

\* _ahandle_event_for_handler: a handler that fails one of the two tests
TaskSkip ==
    /\ d_pc = "gather" /\ FirstPending(tasks) # 0
    /\ LET k == FirstPending(tasks) IN
        /\ ~Eligible(tasks[k].h, d_event, d_verbose)
        /\ tasks' = [tasks EXCEPT ![k].st = "done"]
    /\ UNCHANGED <<is_async, handlers, d_pc, d_event, d_verbose, d_i, d_invoked, d_outcome, nondvars>>

\* _ahandle_event_for_handler: await event(*args, **kwargs)
TaskAwaitCoroutine ==
    /\ d_pc = "gather" /\ FirstPending(tasks) # 0
    /\ LET k == FirstPending(tasks) IN
        /\ Eligible(tasks[k].h, d_event, d_verbose)
        /\ iscoroutinefunction(tasks[k].h)
        /\ tasks' = [tasks EXCEPT ![k].st = "awaiting"]
        /\ d_invoked' = Append(d_invoked, k)
    /\ UNCHANGED <<is_async, handlers, d_pc, d_event, d_verbose, d_i, d_outcome, nondvars>>

\* _ahandle_event_for_handler: await loop.run_in_executor(None, partial(event, ...))
TaskRunInExecutor ==
    /\ d_pc = "gather" /\ FirstPending(tasks) # 0
    /\ LET k == FirstPending(tasks) IN
        /\ Eligible(tasks[k].h, d_event, d_verbose)
        /\ ~iscoroutinefunction(tasks[k].h)
        /\ tasks' = [tasks EXCEPT ![k].st = "executing"]
        /\ d_invoked' = Append(d_invoked, k)
    /\ UNCHANGED <<is_async, handlers, d_pc, d_event, d_verbose, d_i, d_outcome, nondvars>>

\* the event method of task k returns (on the loop or in the executor's thread);
\* a task outlives a gather that has already raised
TaskCompletes(k) ==
    /\ is_async /\ k \in 1..Len(tasks) /\ Running(tasks, k)
    /\ tasks' = [tasks EXCEPT ![k].st = "done"]
    /\ UNCHANGED <<is_async, handlers, d_pc, d_event, d_verbose, d_i, d_invoked, d_outcome, nondvars>>

\* the event method of task k raises: nothing in the coroutine catches it
TaskRaises(k) ==
    /\ is_async /\ k \in 1..Len(tasks) /\ Running(tasks, k)
    /\ CanRaise(tasks[k].h)
    /\ tasks' = [tasks EXCEPT ![k].st = "failed"]
    /\ UNCHANGED <<is_async, handlers, d_pc, d_event, d_verbose, d_i, d_invoked, d_outcome, nondvars>>

\* asyncio.gather(...) has its result: every child is done
GatherDoneMutant(ts) == \E k \in 1..Len(ts) : ts[k].st = "done"
GatherDone(ts) == \A k \in 1..Len(ts) : ts[k].st = "done"

\* asyncio.gather(...), return_exceptions=False: the first child exception is
\* set on the gathering future as soon as that child is done; the children were
\* all scheduled before, and the other children are left running
GatherFailed(ts) ==
    /\ \E k \in 1..Len(ts) : ts[k].st = "failed"
    /\ \A k \in 1..Len(ts) : Started(ts, k)

\* await asyncio.gather(...) returns: _handle_event and the on_* method return
GatherReturn ==
    /\ d_pc = "gather" /\ GatherDone(tasks)
    /\ d_pc' = "idle" /\ d_outcome' = "returned"
    /\ UNCHANGED <<is_async, handlers, d_event, d_verbose, d_i, d_invoked, tasks, nondvars>>

\* await asyncio.gather(...) raises the child's exception into the on_* method,
\* which has no try/except
GatherRaise ==
    /\ d_pc = "gather" /\ GatherFailed(tasks)
    /\ d_pc' = "idle" /\ d_outcome' = "raised"
    /\ UNCHANGED <<is_async, handlers, d_event, d_verbose, d_i, d_invoked, tasks, nondvars>>

-----------------------------------------------------------------------------

Next ==
    \/ \E ev \in Events, verbose \in BOOLEAN : SyncDispatch(ev, verbose)
    \/ SyncSkip
    \/ SyncInvoke
    \/ SyncHandlerReturns
    \/ SyncHandlerRaises
    \/ SyncReturn
    \/ \E h \in HandlerObjs : add_handler(h)
    \/ \E ev \in Events, verbose \in BOOLEAN : AsyncDispatch(ev, verbose)
    \/ TaskSkip
    \/ TaskAwaitCoroutine
    \/ TaskRunInExecutor
    \/ \E k \in 1..MaxHandlers : TaskCompletes(k)
    \/ \E k \in 1..MaxHandlers : TaskRaises(k)
    \/ GatherReturn
    \/ GatherRaise

Spec == Init /\ [][Next]_vars

-----------------------------------------------------------------------------
(* BaseChatModel.generate / agenerate *)

\* exceptions raised by the traced work; both are caught by
\* except (KeyboardInterrupt, Exception)
WorkExceptions == {"Exception", "KeyboardInterrupt"}

\* exceptions Bedrock raises on its own account (subclasses of Exception)
BedrockExceptions == {"ValueError: Error raised by bedrock service", "TypeError: _inspect_bedrock_services_signal"}

\* the inputs of one call:
\*   async      agenerate (TRUE) or generate (FALSE)
\*   llm_cache  langchain.llm_cache is not None
\*   cache      self.cache: "None", "True" or "False"
\*   n          len(messages)
\*   cached     the prompts for which llm_cache.lookup returns a list
\*   work       what _generate / _agenerate is: "opaque" (uses no run manager),
\*              "bedrock_invoke" or "bedrock_stream" (handed the run manager)
GenConfigs ==
    {c \in [async : BOOLEAN, llm_cache : BOOLEAN, cache : {"None", "True", "False"},
            n : 0..MaxMessages, cached : SUBSET (1..MaxMessages),
            work : {"opaque", "bedrock_invoke", "bedrock_stream"}] :
        /\ c.cached \subseteq 1..c.n
        /\ ~c.llm_cache => c.cached = {}
        \* the Bedrock work is synchronous: it runs under generate
        /\ c.async => c.work = "opaque"}

InitGen ==
    /\ IdleExcept("generate")
    /\ g_cfg \in GenConfigs
    /\ g_pc = "entry" /\ g_events = <<>> /\ g_exc = "none"
    /\ g_block = 0 /\ g_results = Unbound /\ b_pc = "off" /\ b_chunks = <<>>

\* get_prompts: existing_prompts (its keys) and missing_prompt_idxs; with no
\* llm_cache the loop records nothing at all
ExistingPrompts == IF g_cfg.llm_cache THEN g_cfg.cached ELSE {}
MissingPrompts == IF g_cfg.llm_cache THEN (1..g_cfg.n) \ g_cfg.cached ELSE {}

\* disregard_cache = self.cache is not None and not self.cache
disregard_cache == g_cfg.cache = "False"

\* a dispatch on the run manager returned by on_chat_model_start
RunManagerDispatch(ev, arg) == Append(g_events, [ev |-> ev, arg |-> arg])

\* params, get_prompts, disregard_cache, CallbackManager.configure
GenConfigure ==
    /\ g_pc = "entry"
    /\ g_pc' = "configured"
    /\ UNCHANGED <<g_cfg, g_events, g_exc, g_block, g_results, b_pc, b_chunks, nongvars>>

\* run_manager = callback_manager.on_chat_model_start(...)
OnChatModelStart ==
    /\ g_pc = "configured"
    /\ g_events' = RunManagerDispatch("on_chat_model_start", "messages")
    /\ g_pc' = "started"
    /\ UNCHANGED <<g_cfg, g_exc, g_block, g_results, b_pc, b_chunks, nongvars>>

\* if langchain.llm_cache is None or disregard_cache
NoCacheBranch == ~g_cfg.llm_cache \/ disregard_cache

\* raise ValueError("Asked to cache, but no cache found at `langchain.cache`.")
AskedToCacheError ==
    /\ g_pc = "started" /\ NoCacheBranch /\ g_cfg.cache = "True"
    /\ g_exc' = "ValueError: Asked to cache, but no cache found"
    /\ g_pc' = "raised"
    /\ UNCHANGED <<g_cfg, g_events, g_block, g_results, b_pc, b_chunks, nongvars>>

\* the first try: one _generate per message list
EnterBlock1 ==
    /\ g_pc = "started" /\ NoCacheBranch /\ g_cfg.cache # "True"
    /\ g_pc' = "block1" /\ g_block' = 0
    /\ UNCHANGED <<g_cfg, g_events, g_exc, g_results, b_pc, b_chunks, nongvars>>

\* the first if is not taken: control is at if len(missing_prompts) > 0
SkipBlock1 ==
    /\ g_pc = "started" /\ ~NoCacheBranch
    /\ g_pc' = "check_missing"
    /\ UNCHANGED <<g_cfg, g_events, g_exc, g_block, g_results, b_pc, b_chunks, nongvars>>

\* the number of _generate calls the running block makes
BlockSize == IF g_pc = "block1" THEN g_cfg.n ELSE Cardinality(MissingPrompts)

InBlock == g_pc \in {"block1", "block2"}

\* the except clause that follows the running block
ExceptOf(pc) == IF pc = "block1" THEN "except1" ELSE "except2"

\* an opaque _generate / _agenerate returns its ChatResult
WorkReturns ==
    /\ InBlock /\ g_cfg.work = "opaque" /\ g_block < BlockSize
    /\ g_block' = g_block + 1
    /\ UNCHANGED <<g_cfg, g_pc, g_events, g_exc, g_results, b_pc, b_chunks, nongvars>>

\* an opaque _generate / _agenerate raises e: the comprehension (the gather)
\* is abandoned and the except clause entered
WorkRaises(e) ==
    /\ InBlock /\ g_cfg.work = "opaque" /\ g_block < BlockSize
    /\ g_exc' = e
    /\ g_pc' = ExceptOf(g_pc)
    /\ UNCHANGED <<g_cfg, g_events, g_block, g_results, b_pc, b_chunks, nongvars>>

\* results = [...] of the first try is complete
Block1Done ==
    /\ g_pc = "block1" /\ g_block = g_cfg.n /\ b_pc = "off"
    /\ g_results' = Bound([i \in 1..g_cfg.n |-> [kind |-> "ChatResult", idx |-> i]])
    /\ g_pc' = "check_missing"
    /\ UNCHANGED <<g_cfg, g_events, g_exc, g_block, b_pc, b_chunks, nongvars>>

\* what the except clauses do with the error event: generate calls
\* run_manager.on_llm_error(e) in both; agenerate awaits it in the first and
\* only creates the coroutine, never awaited, in the second
ErrorEventDispatched(pc) == ~g_cfg.async \/ pc = "except1"

\* except (KeyboardInterrupt, Exception) as e: run_manager.on_llm_error(e)
ExceptClause ==
    /\ g_pc \in {"except1", "except2"}
    /\ g_events' = IF ErrorEventDispatched(g_pc)
                   THEN RunManagerDispatch("on_llm_error", g_exc)
                   ELSE g_events
    /\ g_pc' = "reraise"
    /\ UNCHANGED <<g_cfg, g_exc, g_block, g_results, b_pc, b_chunks, nongvars>>

\* raise e
Reraise ==
    /\ g_pc = "reraise"
    /\ g_pc' = "raised"
    /\ UNCHANGED <<g_cfg, g_events, g_exc, g_block, g_results, b_pc, b_chunks, nongvars>>

\* if len(missing_prompts) > 0: the second try
EnterBlock2 ==
    /\ g_pc = "check_missing" /\ MissingPrompts # {}
    /\ g_pc' = "block2" /\ g_block' = 0
    /\ UNCHANGED <<g_cfg, g_events, g_exc, g_results, b_pc, b_chunks, nongvars>>

\* else: llm_outputs = []; generate also rebuilds results from the cache with
\* [r for _, r in existing_prompts], which iterates the dict's integer keys:
\* an empty list when the dict is empty, a TypeError otherwise
NoMissingPrompts ==
    /\ g_pc = "check_missing" /\ MissingPrompts = {}
    /\ IF g_cfg.async
       THEN g_pc' = "combine" /\ UNCHANGED <<g_results, g_exc>>
       ELSE IF ExistingPrompts = {}
            THEN g_pc' = "combine" /\ g_results' = Bound(<<>>) /\ UNCHANGED g_exc
            ELSE /\ g_pc' = "raised"
                 /\ g_exc' = "TypeError: cannot unpack non-iterable int object"
                 /\ UNCHANGED g_results
    /\ UNCHANGED <<g_cfg, g_events, g_block, b_pc, b_chunks, nongvars>>

\* new_results is complete: update_cache; generate then merges existing_prompts
\* (cached generation lists) with new_results (ChatResults) and sorts by index,
\* agenerate leaves results alone
Block2Done ==
    /\ g_pc = "block2" /\ g_block = Cardinality(MissingPrompts) /\ b_pc = "off"
    /\ g_results' =
        IF g_cfg.async THEN g_results
        ELSE Bound([i \in 1..g_cfg.n |->
                [kind |-> IF i \in MissingPrompts THEN "ChatResult" ELSE "list", idx |-> i]])
    /\ g_pc' = "combine"
    /\ UNCHANGED <<g_cfg, g_events, g_exc, g_block, b_pc, b_chunks, nongvars>>

\* generations = [res.generations for res in results]
CombineError ==
    IF ~g_results.bound
    THEN "UnboundLocalError: local variable 'results' referenced before assignment"
    ELSE IF \E i \in 1..Len(g_results.val) : g_results.val[i].kind = "list"
    THEN "AttributeError: 'list' object has no attribute 'generations'"
    ELSE "none"

\* llm_output, generations and output = LLMResult(...)
Combine ==
    /\ g_pc = "combine"
    /\ IF CombineError = "none"
       THEN g_pc' = "output" /\ UNCHANGED g_exc
       ELSE g_pc' = "raised" /\ g_exc' = CombineError
    /\ UNCHANGED <<g_cfg, g_events, g_block, g_results, b_pc, b_chunks, nongvars>>

\* run_manager.on_llm_end(output)
OnLLMEnd ==
    /\ g_pc = "output"
    /\ g_events' = RunManagerDispatch("on_llm_end", "output")
    /\ g_pc' = "ending"
    /\ UNCHANGED <<g_cfg, g_exc, g_block, g_results, b_pc, b_chunks, nongvars>>

\* return output
Return ==
    /\ g_pc = "ending"
    /\ g_pc' = "returned"
    /\ UNCHANGED <<g_cfg, g_events, g_exc, g_block, g_results, b_pc, b_chunks, nongvars>>

-----------------------------------------------------------------------------
(* Bedrock._call as the traced work: it is handed the run manager of the     *)
(* run and dispatches on it itself.                                          *)

\* the chunks a response stream can carry: the text and, in generation_info,
\* the guardrail assessment of the chunk
ChunkKinds == {"text", "GUARDRAIL_INTERVENED"}
Streams == UNION {[1..n -> ChunkKinds] : n \in 0..MaxChunks}

\* _inspect_bedrock_services_signal(chunk.generation_info)["error"], for a
\* model configured with guardrails and trace
InspectBedrockServicesSignal(chunk) == chunk = "GUARDRAIL_INTERVENED"

\* the exception leaves _call and _generate and reaches the except clause of
\* the running block
BedrockRaises(e) ==
    /\ g_exc' = e
    /\ g_pc' = ExceptOf(g_pc)
    /\ b_pc' = "off" /\ b_chunks' = <<>>
    /\ UNCHANGED <<g_cfg, g_events, g_block, g_results, nongvars>>

\* Bedrock._call: if self.streaming ... else _prepare_input_and_invoke
BedrockCall ==
    /\ InBlock /\ g_block < BlockSize /\ b_pc = "off"
    /\ g_cfg.work \in {"bedrock_invoke", "bedrock_stream"}
    /\ b_pc' = IF g_cfg.work = "bedrock_stream" THEN "stream_request" ELSE "invoke_request"
    /\ UNCHANGED <<g_cfg, g_pc, g_events, g_exc, g_block, g_results, b_chunks, nongvars>>

\* _prepare_input_and_invoke: client.invoke_model / prepare_output raise
InvokeRequestFails ==
    /\ b_pc = "invoke_request"
    /\ BedrockRaises("ValueError: Error raised by bedrock service")

\* _prepare_input_and_invoke: the response is read
InvokeRequestOk ==
    /\ b_pc = "invoke_request"
    /\ b_pc' = "invoke_inspect"
    /\ UNCHANGED <<g_cfg, g_pc, g_events, g_exc, g_block, g_results, b_chunks, nongvars>>

\* _prepare_input_and_invoke: self._inspect_bedrock_services_signal(body,
\* run_manager) passes two arguments to a method that takes one, so the call
\* raises TypeError and the on_llm_error / return text below it are never reached
InvokeInspect ==
    /\ b_pc = "invoke_inspect"
    /\ BedrockRaises("TypeError: _inspect_bedrock_services_signal")

\* _prepare_input_and_invoke_stream: invoke_model_with_response_stream raises
StreamRequestFails ==
    /\ b_pc = "stream_request"
    /\ BedrockRaises("ValueError: Error raised by bedrock service")

\* _prepare_input_and_invoke_stream: the response stream is open
StreamRequestOk(stream) ==
    /\ b_pc = "stream_request"
    /\ b_pc' = "streaming" /\ b_chunks' = stream
    /\ UNCHANGED <<g_cfg, g_pc, g_events, g_exc, g_block, g_results, nongvars>>

\* one iteration of the loop over the stream: yield chunk, inspect it,
\* run_manager.on_llm_new_token, and on a signalled intervention
\* run_manager.on_llm_error; the loop then goes on with the next chunk
StreamChunk ==
    /\ b_pc = "streaming" /\ b_chunks # <<>>
    /\ LET token == RunManagerDispatch("on_llm_new_token", "chunk")
       IN g_events' =
            IF InspectBedrockServicesSignal(Head(b_chunks))
            THEN Append(token, [ev |-> "on_llm_error", arg |-> "GUARDRAIL_INTERVENED"])
            ELSE token
    /\ b_chunks' = Tail(b_chunks)
    /\ UNCHANGED <<g_cfg, g_pc, g_exc, g_block, g_results, b_pc, nongvars>>

\* the stream is exhausted: _call returns the completion, _generate its result
StreamEnd ==
    /\ b_pc = "streaming" /\ b_chunks = <<>>
    /\ b_pc' = "off"
    /\ g_block' = g_block + 1
    /\ UNCHANGED <<g_cfg, g_pc, g_events, g_exc, g_results, b_chunks, nongvars>>

NextGen ==
    \/ GenConfigure
    \/ OnChatModelStart
    \/ AskedToCacheError
    \/ EnterBlock1
    \/ SkipBlock1
    \/ WorkReturns
    \/ \E e \in WorkExceptions : WorkRaises(e)
    \/ Block1Done
    \/ ExceptClause
    \/ Reraise
    \/ EnterBlock2
    \/ NoMissingPrompts
    \/ Block2Done
    \/ Combine
    \/ OnLLMEnd
    \/ Return
    \/ BedrockCall
    \/ InvokeRequestFails
    \/ InvokeRequestOk
    \/ InvokeInspect
    \/ StreamRequestFails
    \/ \E stream \in Streams : StreamRequestOk(stream)
    \/ StreamChunk
    \/ StreamEnd

SpecGen == InitGen /\ [][NextGen]_vars

-----------------------------------------------------------------------------
(* One handler list registered with a CallbackManager and with an           *)
(* AsyncCallbackManager, and the same on_* call made on both.               *)

\* the positional arguments CallbackManager.on_* forwards to _handle_event
SyncArgs(ev) ==
    CASE ev = "on_llm_start" -> <<"serialized", "prompts">>
      [] ev = "on_llm_new_token" -> <<"token">>
      [] ev = "on_llm_end" -> <<"response">>
      [] ev = "on_llm_error" -> <<"error">>
      [] ev = "on_chain_start" -> <<"serialized", "inputs">>
      [] ev = "on_chain_end" -> <<"outputs">>
      [] ev = "on_chain_error" -> <<"error">>
      [] ev = "on_tool_start" -> <<"serialized", "input_str">>
      [] ev = "on_agent_action" -> <<"action">>
      [] ev = "on_tool_end" -> <<"output">>
      [] ev = "on_tool_error" -> <<"error">>
      [] ev = "on_text" -> <<"text">>
      [] ev = "on_agent_finish" -> <<"finish">>

\* the positional arguments AsyncCallbackManager.on_* forwards to _handle_event
AsyncArgs(ev) ==
    CASE ev = "on_llm_start" -> <<"serialized", "prompts">>
      [] ev = "on_llm_new_token" -> <<"token">>
      [] ev = "on_llm_end" -> <<"response">>
      [] ev = "on_llm_error" -> <<"error">>
      [] ev = "on_chain_start" -> <<"serialized", "inputs">>
      [] ev = "on_chain_end" -> <<"outputs">>
      [] ev = "on_chain_error" -> <<"error">>
      [] ev = "on_tool_start" -> <<"serialized", "input_str">>
      [] ev = "on_tool_end" -> <<"output">>
      [] ev = "on_tool_error" -> <<"error">>
      [] ev = "on_text" -> <<"text">>
      [] ev = "on_agent_action" -> <<"action">>
      [] ev = "on_agent_finish" -> <<"finish">>

\* the **kwargs a caller can add to an on_* call
KwargsChoices == {"none", "run_id"}

\* what a handler's event method is called with
HandlerCall(name, args, kwargs) == [name |-> name, args |-> args, kwargs |-> kwargs]

\* getattr(handler, event_name)(*args, **kwargs)
SyncCall(ev, args, kwargs) == HandlerCall(ev, args, kwargs)

\* event(*args, **kwargs), or functools.partial(event, *args, **kwargs) called
\* with no further argument by the executor
AsyncCall(ev, args, kwargs) == HandlerCall(ev, args, kwargs)

\* the positions whose event method can raise
CanRaisePositions(hs) == {k \in 1..Len(hs) : CanRaise(hs[k])}

\* the positions CallbackManager._handle_event invokes when the handlers at
\* the positions R raise: the loop ends at the first invoked handler that raises
SyncDelivered(hs, ev, verbose, R) ==
    {k \in 1..Len(hs) :
        /\ Eligible(hs[k], ev, verbose)
        /\ \A j \in 1..(k - 1) : ~(j \in R /\ Eligible(hs[j], ev, verbose))}

\* the positions AsyncCallbackManager._handle_event invokes: every coroutine
\* handed to gather runs its first step, whether or not another one raises
AsyncDelivered(hs, ev, verbose) ==
    {k \in 1..Len(hs) : Eligible(hs[k], ev, verbose)}

NothingReceived(hs) == [k \in 1..Len(hs) |-> <<>>]

InitBridge ==
    /\ IdleExcept("bridge")
    /\ br_handlers \in HandlerLists
    /\ br_sync = NothingReceived(br_handlers)
    /\ br_async = NothingReceived(br_handlers)

\* the same on_* call, made on the CallbackManager and awaited on the
\* AsyncCallbackManager, each dispatch over before the next call; R is the set
\* of handlers whose event method raises on this event
BridgeDispatch(ev, verbose, kwargs, R) ==
    /\ br_sync' = [k \in 1..Len(br_handlers) |->
            IF k \in SyncDelivered(br_handlers, ev, verbose, R)
            THEN <<SyncCall(ev, SyncArgs(ev), kwargs)>> ELSE <<>>]
    /\ br_async' = [k \in 1..Len(br_handlers) |->
            IF k \in AsyncDelivered(br_handlers, ev, verbose)
            THEN <<AsyncCall(ev, AsyncArgs(ev), kwargs)>> ELSE <<>>]
    /\ UNCHANGED <<br_handlers, nonbrvars>>

NextBridge ==
    \E ev \in Events, verbose \in BOOLEAN, kwargs \in KwargsChoices :
        \E R \in SUBSET CanRaisePositions(br_handlers) :
            BridgeDispatch(ev, verbose, kwargs, R)

SpecBridge == InitBridge /\ [][NextBridge]_vars

-----------------------------------------------------------------------------
(* Runs traced by a LangChainTracer: nested synchronous components, each     *)
(* starting its run through a child manager of the enclosing run.           *)

\* most runs one trace holds
MaxRuns == 3

\* parent_run_id of a top-level run
NoRun == 0

\* the tags a caller passes to an entry point (tags=...), those a tracer is
\* built with (LangChainTracer(tags=...)), and the argument of get_child
CallTags == SUBSET {"t_call", "t_shared"}
TracerTags == SUBSET {"t_tracer", "t_shared"}
ChildTagChoices == {"None", "original", "fallacy_critique"}

InitRuns ==
    /\ IdleExcept("runs")
    /\ r_tracer_tags \in TracerTags
    /\ r_runs = <<>> /\ r_mgr = NoManager /\ r_origin = <<>> /\ r_posted = <<>>

\* the runs that have started and not ended
OpenRuns == {i \in 1..Len(r_runs) : ~r_runs[i].ended}

\* the run whose component is executing: components are nested synchronous
\* calls, so it is the run opened last among the open ones
InnermostOpen == IF OpenRuns = {} THEN NoRun ELSE CHOOSE i \in OpenRuns : \A j \in OpenRuns : j <= i

\* run_manager.get_child(tag) of the scoped manager of run A: a manager whose
\* parent_run_id is A's run_id and whose tags are A's tags and the new tag
ChildManager(A, tag) ==
    [kind |-> "child",
     parent_run_id |-> r_runs[A].id,
     tags |-> r_runs[A].tags \cup (IF tag = "None" THEN {} ELSE {tag})]

\* callbacks=_run_manager.get_child(tag): evaluated as an argument of the
\* nested component's call, by the component of the innermost open run
get_child(tag) ==
    /\ r_mgr = NoManager /\ InnermostOpen # NoRun /\ Len(r_runs) < MaxRuns
    /\ r_mgr' = ChildManager(InnermostOpen, tag)
    /\ UNCHANGED <<r_tracer_tags, r_runs, r_origin, r_posted, nonrvars>>

\* configure(callbacks, None, inheritable_tags=tags): the manager handed in is
\* the base, and the call's tags are added to the tags it carries
ConfigureTags(mgr, tags) == (IF mgr.kind = "child" THEN mgr.tags ELSE {}) \cup tags

\* the parent_run_id the resolved manager hands to the handlers
ManagerParent(mgr) == IF mgr.kind = "child" THEN mgr.parent_run_id ELSE NoRun

\* BaseTracer._get_execution_order(parent_run_id): one more than the parent's
\* child_execution_order, 1 for a run without parent
GetExecutionOrder(parent) ==
    IF parent = NoRun THEN 1 ELSE r_runs[parent].child_execution_order + 1

\* LangChainTracer.on_chat_model_start: the Run the tracer builds
NewRunWithoutParent(run_id, parent_run_id, tags) ==
    [id |-> run_id, parent_run_id |-> NoRun, execution_order |-> 1,
     child_execution_order |-> 1, tags |-> tags, ended |-> FALSE]
NewRunOrderOne(run_id, parent_run_id, tags) ==
    [id |-> run_id, parent_run_id |-> parent_run_id, execution_order |-> 1,
     child_execution_order |-> 1, tags |-> tags, ended |-> FALSE]
NewRun(run_id, parent_run_id, tags) ==
    [id |-> run_id,
     parent_run_id |-> parent_run_id,
     execution_order |-> GetExecutionOrder(parent_run_id),
     child_execution_order |-> GetExecutionOrder(parent_run_id),
     tags |-> tags,
     ended |-> FALSE]

\* LangChainTracer._get_tags(run): set(run.tags) updated with self.tags
KeepOnlyTracerTags(run) == r_tracer_tags
GetTags(run) == run.tags \cup r_tracer_tags

\* an entry point is called (with the child manager as callbacks, or at top
\* level with none): configure, on_*_start with a fresh run_id, the tracer's
\* on_chat_model_start, and _persist_run_single with the run's combined tags
StartRun(tags) ==
    /\ Len(r_runs) < MaxRuns
    /\ r_mgr = NoManager => OpenRuns = {}
    /\ LET run == NewRun(Len(r_runs) + 1, ManagerParent(r_mgr), ConfigureTags(r_mgr, tags))
       IN /\ r_runs' = Append(r_runs, run)
          /\ r_posted' = Append(r_posted, [id |-> run.id, tags |-> GetTags(run)])
    /\ r_origin' = Append(r_origin, [enclosing |-> InnermostOpen,
                                      inherited |-> ConfigureTags(r_mgr, {}),
                                      call_tags |-> tags])
    /\ r_mgr' = NoManager
    /\ UNCHANGED <<r_tracer_tags, nonrvars>>

\* BaseTracer._end_trace: the run is over and the parent's counter is extended
\* to the highest order used below it
EndTrace(runs, i) ==
    LET p == runs[i].parent_run_id
        ended == [runs EXCEPT ![i].ended = TRUE]
    IN  IF p = NoRun THEN ended
        ELSE [ended EXCEPT ![p].child_execution_order =
                IF runs[i].child_execution_order > @ THEN runs[i].child_execution_order ELSE @]

\* the component of the innermost open run returns or raises: its terminal
\* event reaches the tracer
EndRun ==
    /\ r_mgr = NoManager /\ InnermostOpen # NoRun
    /\ r_runs' = EndTrace(r_runs, InnermostOpen)
    /\ UNCHANGED <<r_tracer_tags, r_mgr, r_origin, r_posted, nonrvars>>

NextRuns ==
    \/ \E tag \in ChildTagChoices : get_child(tag)
    \/ \E tags \in CallTags : StartRun(tags)
    \/ EndRun

SpecRuns == InitRuns /\ [][NextRuns]_vars

-----------------------------------------------------------------------------
(* CallbackManager.configure / AsyncCallbackManager.configure, the first     *)
(* statement of generate and agenerate: it resolves the callbacks of the     *)
(* call and the callbacks of the component into one manager.                 *)

\* the callbacks arguments: None, or at most MaxCallbacks handlers
NoCallbacks == <<>>
CallbackLists == UNION {[1..n -> HandlerObjs] : n \in 0..MaxCallbacks}

\* inline_callbacks: None, a bare handler list, or a manager holding one
InlineCallbacks ==
    {[form |-> "None", handlers |-> NoCallbacks]}
        \cup [form : {"list", "manager"}, handlers : CallbackLists]

\* inherited_callbacks: None or a handler list
InheritedCallbacks ==
    {[form |-> "None", handlers |-> NoCallbacks]}
        \cup [form : {"list"}, handlers : CallbackLists]

NoCall == [kind |-> "none"]

InitConfigure ==
    /\ IdleExcept("configure")
    /\ cf_call = NoCall

\* a resolver that lets the inline callbacks replace the inherited ones
InlineReplacesInherited(inline, inherited) ==
    IF inline # NoCallbacks THEN inline ELSE inherited

\* the handler list of the resolved manager: the inline handlers are the
\* base, every inherited handler not among them is added after them
ConfigureHandlers(inline, inherited) ==
    inline \o SelectSeq(inherited,
                  LAMBDA h : \A j \in 1..Len(inline) : inline[j] # h)

\* the manager configure(inline, inherited, verbose) returns
ConfiguredManager(inline, inherited, verbose) ==
    [kind |-> "configured",
     inline |-> inline, inherited |-> inherited,
     handlers |-> ConfigureHandlers(inline.handlers, inherited.handlers),
     verbose |-> verbose]

\* callback_manager = CallbackManager.configure(callbacks, self.callbacks,
\*                                              self.verbose)
configure ==
    /\ cf_call = NoCall
    /\ \E inline \in InlineCallbacks, inherited \in InheritedCallbacks,
          verbose \in BOOLEAN :
            cf_call' = ConfiguredManager(inline, inherited, verbose)
    /\ UNCHANGED noncfvars

\* the entry point returns: its callback_manager is gone
EntryPointReturns ==
    /\ cf_call # NoCall
    /\ cf_call' = NoCall
    /\ UNCHANGED noncfvars

NextConfigure ==
    \/ configure
    \/ EntryPointReturns

SpecConfigure == InitConfigure /\ [][NextConfigure]_vars

-----------------------------------------------------------------------------
(* log_error_once: the functions the tracer submits (_persist_run_single,    *)
(* _update_run_single) call it from their except clause, on the caller's     *)
(* thread or on the threads of the ThreadPoolExecutor.                       *)

\* most failing client calls in one history
MaxFailures == 3

\* most executor threads running submitted functions at once
MaxWorkers == 2

\* the method argument: "post" from _persist_run_single, "patch" from
\* _update_run_single
LogMethods == {"post", "patch"}

\* type(exception)
ExceptionTypes == {"ConnectionError", "HTTPError"}

\* the threads that run the submitted functions: the caller's thread when
\* self.executor is None, the executor's threads otherwise
Threads(threading) == IF threading THEN 1..MaxWorkers ELSE 1..1

ThreadIdle == [pc |-> "idle"]

InitLog ==
    /\ IdleExcept("log")
    /\ lg_threading \in BOOLEAN
    /\ lg_logged = {}
    /\ lg_records = <<>>
    /\ lg_threads = [t \in Threads(lg_threading) |-> ThreadIdle]
    /\ lg_failed = <<>>

\* client.create_run / client.update_run raises inside a submitted function:
\* the except clause calls log_error_once(method, e)
ClientCallRaises(t, method, exc) ==
    /\ t \in DOMAIN lg_threads
    /\ lg_threads[t].pc = "idle"
    /\ Len(lg_failed) < MaxFailures
    /\ lg_threads' = [lg_threads EXCEPT ![t] =
                         [pc |-> "test", method |-> method, exc |-> exc]]
    /\ lg_failed' = Append(lg_failed, <<method, exc>>)
    /\ UNCHANGED <<lg_threading, lg_logged, lg_records>>
    /\ UNCHANGED nonlgvars

\* if (method, type(exception)) in _LOGGED: return
LogTest(t) ==
    /\ t \in DOMAIN lg_threads
    /\ lg_threads[t].pc = "test"
    /\ lg_threads' = [lg_threads EXCEPT ![t] =
                         IF <<@.method, @.exc>> \in lg_logged
                             THEN ThreadIdle
                             ELSE [@ EXCEPT !.pc = "add"]]
    /\ UNCHANGED <<lg_threading, lg_logged, lg_records, lg_failed>>
    /\ UNCHANGED nonlgvars

\* _LOGGED.add((method, type(exception)))
LogAdd(t) ==
    /\ t \in DOMAIN lg_threads
    /\ lg_threads[t].pc = "add"
    /\ lg_logged' = lg_logged \cup {<<lg_threads[t].method, lg_threads[t].exc>>}
    /\ lg_threads' = [lg_threads EXCEPT ![t].pc = "error"]
    /\ UNCHANGED <<lg_threading, lg_records, lg_failed>>
    /\ UNCHANGED nonlgvars

\* logger.error(exception); the function then re-raises into its future
LogError(t) ==
    /\ t \in DOMAIN lg_threads
    /\ lg_threads[t].pc = "error"
    /\ lg_records' = Append(lg_records, <<lg_threads[t].method, lg_threads[t].exc>>)
    /\ lg_threads' = [lg_threads EXCEPT ![t] = ThreadIdle]
    /\ UNCHANGED <<lg_threading, lg_logged, lg_failed>>
    /\ UNCHANGED nonlgvars

NextLog ==
    \/ \E t \in 1..MaxWorkers, method \in LogMethods, exc \in ExceptionTypes :
          ClientCallRaises(t, method, exc)
    \/ \E t \in 1..MaxWorkers : LogTest(t)
    \/ \E t \in 1..MaxWorkers : LogAdd(t)
    \/ \E t \in 1..MaxWorkers : LogError(t)

SpecLog == InitLog /\ [][NextLog]_vars

-----------------------------------------------------------------------------
(* Embeddings.embed_documents / embed_query / aembed_documents /             *)
(* aembed_query: configure, on_embedding_start, the subclass's work, and     *)
(* the terminal event on the run managers.                                   *)

\* most texts handed to one embed_documents call
MaxTexts == 2

EmbedEntryPoints ==
    {"embed_documents", "embed_query", "aembed_documents", "aembed_query"}

QueryEntryPoints == {"embed_query", "aembed_query"}
AsyncEntryPoints == {"aembed_documents", "aembed_query"}

\* the inputs of one call:
\*   entry    the entry point
\*   n        len(texts); embed_query passes [text]
\*   new_arg  self._new_arg_supported
EmbedConfigs ==
    {c \in [entry : EmbedEntryPoints, n : 0..MaxTexts, new_arg : BOOLEAN] :
        c.entry \in QueryEntryPoints => c.n = 1}

InitEmbed ==
    /\ IdleExcept("embed")
    /\ e_cfg \in EmbedConfigs
    /\ e_pc = "entry" /\ e_events = <<>> /\ e_exc = "none"
    /\ e_result = Unbound /\ e_done = {}

\* the run managers on_embedding_start returns: one per text
RunManagers(n) == 1..n

\* a dispatch on the manager (rm = 0) or on run manager rm
EmbedDispatch(ev, rm) == Append(e_events, [ev |-> ev, rm |-> rm])

\* callback_manager = CallbackManager.configure(callbacks, None,
\*     inheritable_tags=tags, inheritable_metadata=metadata)
EmbedConfigure ==
    /\ e_pc = "entry"
    /\ e_pc' = "configured"
    /\ UNCHANGED <<e_cfg, e_events, e_exc, e_result, e_done, nonevars>>

\* run_managers = callback_manager.on_embedding_start({}, texts)
OnEmbeddingStart ==
    /\ e_pc = "configured"
    /\ e_events' = EmbedDispatch("on_embedding_start", 0)
    /\ e_pc' = "started"
    /\ UNCHANGED <<e_cfg, e_exc, e_result, e_done, nonevars>>

\* a try statement placed above the start dispatch
TryBeforeStart == "configured"

\* where control is when the try statement holding the work is entered
TryPosition == "started"

\* the lengths result can have: a list of any length from _embed_documents,
\* one vector from _embed_query
ResultLengths == IF e_cfg.entry \in QueryEntryPoints THEN {1} ELSE 0..MaxTexts

\* result = self._embed_documents(texts, run_managers=run_managers) and the
\* like return
EmbedWorkReturns(len) ==
    /\ e_pc = TryPosition
    /\ len \in ResultLengths
    /\ e_result' = Bound(len)
    /\ e_pc' = "else"
    /\ UNCHANGED <<e_cfg, e_events, e_exc, e_done, nonevars>>

\* the work raises e: except Exception catches it unless it is a
\* KeyboardInterrupt, which leaves the entry point at once
EmbedWorkRaises(e) ==
    /\ e_pc = TryPosition
    /\ e_exc' = e
    /\ e_pc' = IF e = "Exception" THEN "except" ELSE "raised"
    /\ UNCHANGED <<e_cfg, e_events, e_result, e_done, nonevars>>

\* the run managers the terminal event of the running clause goes to:
\* run_managers[0] in the query entry points; every run manager in the except
\* clause and zip(result, run_managers) in the else clause of the others
TerminalTargets ==
    IF e_cfg.entry \in QueryEntryPoints THEN {1}
    ELSE IF e_pc = "except" THEN RunManagers(e_cfg.n)
    ELSE {k \in RunManagers(e_cfg.n) : k <= e_result.val}

\* the run manager the next terminal dispatch may go to: the for loop takes
\* them in order, the gathered coroutines run in any order
NextTarget(k) ==
    /\ k \in TerminalTargets \ e_done
    /\ e_cfg.entry \in AsyncEntryPoints
          \/ \A j \in TerminalTargets \ e_done : k <= j

\* run_manager.on_embedding_error(e)
OnEmbeddingError(k) ==
    /\ e_pc = "except" /\ NextTarget(k)
    /\ e_events' = EmbedDispatch("on_embedding_error", k)
    /\ e_done' = e_done \cup {k}
    /\ UNCHANGED <<e_cfg, e_pc, e_exc, e_result, nonevars>>

\* raise e
EmbedReraise ==
    /\ e_pc = "except" /\ TerminalTargets \subseteq e_done
    /\ e_pc' = "raised"
    /\ UNCHANGED <<e_cfg, e_events, e_exc, e_result, e_done, nonevars>>

\* run_manager.on_embedding_end(single_result)
OnEmbeddingEnd(k) ==
    /\ e_pc = "else" /\ NextTarget(k)
    /\ e_events' = EmbedDispatch("on_embedding_end", k)
    /\ e_done' = e_done \cup {k}
    /\ UNCHANGED <<e_cfg, e_pc, e_exc, e_result, nonevars>>

\* return result
EmbedReturn ==
    /\ e_pc = "else" /\ TerminalTargets \subseteq e_done
    /\ e_pc' = "returned"
    /\ UNCHANGED <<e_cfg, e_events, e_exc, e_result, e_done, nonevars>>

NextEmbed ==
    \/ EmbedConfigure
    \/ OnEmbeddingStart
    \/ \E len \in 0..MaxTexts : EmbedWorkReturns(len)
    \/ \E e \in WorkExceptions : EmbedWorkRaises(e)
    \/ \E k \in 1..MaxTexts : OnEmbeddingError(k)
    \/ EmbedReraise
    \/ \E k \in 1..MaxTexts : OnEmbeddingEnd(k)
    \/ EmbedReturn

SpecEmbed == InitEmbed /\ [][NextEmbed]_vars

-----------------------------------------------------------------------------
(* The public entry points together: one call of generate / agenerate, with  *)
(* a _generate that leaves the run manager alone, or one call of an          *)
(* embeddings entry point.                                                   *)

InitEntry ==
    \/ InitGen /\ g_cfg.work = "opaque"
    \/ InitEmbed

NextEntry ==
    \/ GenConfigure
    \/ OnChatModelStart
    \/ AskedToCacheError
    \/ EnterBlock1
    \/ SkipBlock1
    \/ WorkReturns
    \/ \E e \in WorkExceptions : WorkRaises(e)
    \/ Block1Done
    \/ ExceptClause
    \/ Reraise
    \/ EnterBlock2
    \/ NoMissingPrompts
    \/ Block2Done
    \/ Combine
    \/ OnLLMEnd
    \/ Return
    \/ EmbedConfigure
    \/ OnEmbeddingStart
    \/ \E len \in 0..MaxTexts : EmbedWorkReturns(len)
    \/ \E e \in WorkExceptions : EmbedWorkRaises(e)
    \/ \E k \in 1..MaxTexts : OnEmbeddingError(k)
    \/ EmbedReraise
    \/ \E k \in 1..MaxTexts : OnEmbeddingEnd(k)
    \/ EmbedReturn

SpecEntry == InitEntry /\ [][NextEntry]_vars

-----------------------------------------------------------------------------
(* Two managers constructed over one handler list: __init__ binds            *)
(* self.handlers to the list object it is handed.                            *)

\* most list objects one history creates
MaxLists == 2

SharingManagers == {"parent", "child"}
SharedHandlerObjs == {"h_trace", "h_quiet"}
SharedLists == UNION {[1..n -> SharedHandlerObjs] : n \in 0..MaxHandlers}

\* CallbackManager(handlers) for both managers, with the same list object
InitShare ==
    /\ IdleExcept("share")
    /\ \E hs \in SharedLists : sh_lists = <<hs>>
    /\ sh_ref = [m \in SharingManagers |-> 1]

\* self.handlers of manager m: what its dispatches iterate over
HandlersOf(m) == sh_lists[sh_ref[m]]

\* list.remove: the list without the first occurrence of h
RemoveFirst(hs, h) ==
    LET j == CHOOSE j \in 1..Len(hs) : hs[j] = h /\ \A i \in 1..(j - 1) : hs[i] # h
    IN SubSeq(hs, 1, j - 1) \o SubSeq(hs, j + 1, Len(hs))

\* self.handlers.append(handler)
SharedAddHandler(m, h) ==
    /\ Len(HandlersOf(m)) < MaxHandlers
    /\ sh_lists' = [sh_lists EXCEPT ![sh_ref[m]] = Append(@, h)]
    /\ UNCHANGED <<sh_ref, nonshvars>>

\* self.handlers.remove(handler); a handler not in the list raises ValueError
\* and leaves the list alone
SharedRemoveHandler(m, h) ==
    /\ \E j \in 1..Len(HandlersOf(m)) : HandlersOf(m)[j] = h
    /\ sh_lists' = [sh_lists EXCEPT ![sh_ref[m]] = RemoveFirst(@, h)]
    /\ UNCHANGED <<sh_ref, nonshvars>>

\* self.handlers = handlers: the attribute is bound to the caller's list object
SharedSetHandlers(m, hs) ==
    /\ Len(sh_lists) < MaxLists
    /\ sh_lists' = Append(sh_lists, hs)
    /\ sh_ref' = [sh_ref EXCEPT ![m] = Len(sh_lists) + 1]
    /\ UNCHANGED nonshvars

NextShare ==
    \/ \E m \in SharingManagers, h \in SharedHandlerObjs : SharedAddHandler(m, h)
    \/ \E m \in SharingManagers, h \in SharedHandlerObjs : SharedRemoveHandler(m, h)
    \/ \E m \in SharingManagers, hs \in SharedLists : SharedSetHandlers(m, hs)

SpecShare == InitShare /\ [][NextShare]_vars

-----------------------------------------------------------------------------
(* A dispatch during which add_handler / remove_handler / set_handlers are   *)
(* called on the dispatching manager: by a handler from inside its event     *)
(* method (CallbackManager), by another coroutine while the dispatch is      *)
(* suspended in gather (AsyncCallbackManager).  The handlers never raise.    *)

MutatingHandlerObjs == {"h_trace", "h_quiet"}
MutatingLists == UNION {[1..n -> MutatingHandlerObjs] : n \in 0..MaxHandlers}

\* the event dispatched: on_llm_start
MutatingEvent == "on_llm_start"

InitMutate ==
    /\ IdleExcept("mutate")
    /\ m_async \in BOOLEAN
    /\ m_handlers \in MutatingLists
    /\ m_start = <<>> /\ m_pc = "idle" /\ m_i = 0 /\ m_verbose = FALSE
    /\ m_delivered = <<>> /\ m_tasks = <<>>

\* on_llm_start(...): CallbackManager enters the for loop over self.handlers;
\* AsyncCallbackManager builds one coroutine per handler of self.handlers,
\* all of them before gather is awaited
MutatingDispatch(verbose) ==
    /\ m_pc \in {"idle", "over"}
    /\ m_verbose' = verbose
    /\ m_start' = m_handlers
    /\ m_delivered' = <<>>
    /\ IF m_async
       THEN /\ m_pc' = "gather" /\ m_i' = 0
            /\ m_tasks' = [k \in 1..Len(m_handlers) |->
                              [h |-> m_handlers[k], st |-> "pending"]]
       ELSE /\ m_pc' = "loop" /\ m_i' = 1 /\ m_tasks' = <<>>
    /\ UNCHANGED <<m_async, m_handlers, nonmvars>>

\* for handler in self.handlers: the iterator reads the live list at its
\* position; an eligible handler's event method is called
LoopStep ==
    /\ m_pc = "loop" /\ m_i <= Len(m_handlers)
    /\ IF Eligible(m_handlers[m_i], MutatingEvent, m_verbose)
       THEN /\ m_delivered' = Append(m_delivered, m_handlers[m_i])
            /\ m_pc' = "in_handler" /\ UNCHANGED m_i
       ELSE /\ m_i' = m_i + 1 /\ UNCHANGED <<m_delivered, m_pc>>
    /\ UNCHANGED <<m_async, m_handlers, m_start, m_verbose, m_tasks, nonmvars>>

\* the event method returns: the iterator advances
LoopHandlerReturns ==
    /\ m_pc = "in_handler"
    /\ m_pc' = "loop" /\ m_i' = m_i + 1
    /\ UNCHANGED <<m_async, m_handlers, m_start, m_verbose, m_delivered, m_tasks, nonmvars>>

\* the iterator is past the end of the live list: the dispatch returns
LoopEnd ==
    /\ m_pc = "loop" /\ m_i > Len(m_handlers)
    /\ m_pc' = "over"
    /\ UNCHANGED <<m_async, m_handlers, m_start, m_i, m_verbose, m_delivered, m_tasks, nonmvars>>

\* a coroutine that reads its handler from self.handlers when it runs
RecipientFromLiveList(k) ==
    IF k \in 1..Len(m_handlers) THEN m_handlers[k] ELSE m_tasks[k].h

\* the handler bound in coroutine k when _handle_event built it
RecipientOf(k) == m_tasks[k].h

\* first step of the next coroutine: the two tests, then the event method
CoroutineStep ==
    /\ m_pc = "gather" /\ FirstPending(m_tasks) # 0
    /\ LET k == FirstPending(m_tasks) IN
        IF Eligible(RecipientOf(k), MutatingEvent, m_verbose)
        THEN /\ m_delivered' = Append(m_delivered, RecipientOf(k))
             /\ m_tasks' = [m_tasks EXCEPT ![k].st = "awaiting"]
        ELSE /\ m_tasks' = [m_tasks EXCEPT ![k].st = "done"]
             /\ UNCHANGED m_delivered
    /\ UNCHANGED <<m_async, m_handlers, m_start, m_pc, m_i, m_verbose, nonmvars>>

\* the event method of coroutine k returns
CoroutineDone(k) ==
    /\ m_pc = "gather" /\ k \in 1..Len(m_tasks) /\ Running(m_tasks, k)
    /\ m_tasks' = [m_tasks EXCEPT ![k].st = "done"]
    /\ UNCHANGED <<m_async, m_handlers, m_start, m_pc, m_i, m_verbose, m_delivered, nonmvars>>

\* await asyncio.gather(...) returns
MutatingGatherReturn ==
    /\ m_pc = "gather" /\ GatherDone(m_tasks)
    /\ m_pc' = "over"
    /\ UNCHANGED <<m_async, m_handlers, m_start, m_i, m_verbose, m_delivered, m_tasks, nonmvars>>

\* the points at which the list can be changed during a dispatch: inside an
\* event method of the sync manager, while the async dispatch is suspended
MutationPoint == IF m_async THEN m_pc = "gather" ELSE m_pc = "in_handler"

\* add_handler during the dispatch
AddDuringDispatch(h) ==
    /\ MutationPoint /\ Len(m_handlers) < MaxHandlers
    /\ m_handlers' = Append(m_handlers, h)
    /\ UNCHANGED <<m_async, m_start, m_pc, m_i, m_verbose, m_delivered, m_tasks, nonmvars>>

\* remove_handler during the dispatch
RemoveDuringDispatch(h) ==
    /\ MutationPoint /\ \E j \in 1..Len(m_handlers) : m_handlers[j] = h
    /\ m_handlers' = RemoveFirst(m_handlers, h)
    /\ UNCHANGED <<m_async, m_start, m_pc, m_i, m_verbose, m_delivered, m_tasks, nonmvars>>

\* set_handlers by another coroutine during the async dispatch
SetDuringDispatch(hs) ==
    /\ m_async /\ MutationPoint
    /\ m_handlers' = hs
    /\ UNCHANGED <<m_async, m_start, m_pc, m_i, m_verbose, m_delivered, m_tasks, nonmvars>>

NextMutate ==
    \/ \E verbose \in BOOLEAN : MutatingDispatch(verbose)
    \/ LoopStep
    \/ LoopHandlerReturns
    \/ LoopEnd
    \/ CoroutineStep
    \/ \E k \in 1..MaxHandlers : CoroutineDone(k)
    \/ MutatingGatherReturn
    \/ \E h \in MutatingHandlerObjs : AddDuringDispatch(h)
    \/ \E h \in MutatingHandlerObjs : RemoveDuringDispatch(h)
    \/ \E hs \in MutatingLists : SetDuringDispatch(hs)

SpecMutate == InitMutate /\ [][NextMutate]_vars

-----------------------------------------------------------------------------
(* LangChainTracer._submit: _persist_run_single at the start of a run,       *)
(* _update_run_single at its end or error, run by the shared                 *)
(* ThreadPoolExecutor or on the caller's thread; wait_for_all_tracers.       *)

\* most runs one history traces
MaxTracedRuns == 2

\* the live tracers, all in _TRACERS; run r is traced by TracerOf(r)
Tracers == {1, 2}
TracerOf(r) == IF r % 2 = 1 THEN 1 ELSE 2

InitTracer ==
    /\ IdleExcept("tracer")
    /\ t_threading \in BOOLEAN
    /\ t_tasks = <<>> /\ t_pc = "idle" /\ t_wait = 0 /\ t_before = 0

Finished(task) == task.st \in {"done", "failed"}

\* the submitted functions of one kind for run r
TasksOf(kind, r) == {i \in 1..Len(t_tasks) : t_tasks[i].kind = kind /\ t_tasks[i].run = r}

\* _submit(function, run): function(run) at once when self.executor is None,
\* self._futures.add(self.executor.submit(function, run)) otherwise
Submit(kind, r) ==
    /\ t_tasks' = Append(t_tasks, [kind |-> kind, run |-> r,
                                   st |-> IF t_threading THEN "queued" ELSE "running"])
    /\ t_pc' = IF t_threading THEN "idle" ELSE "in_callback"

\* _on_llm_start and the like: self._submit(self._persist_run_single, _copy(run))
OnRunStart(r) ==
    /\ t_pc = "idle" /\ r \in 1..MaxTracedRuns
    /\ TasksOf("persist", r) = {}
    /\ \A q \in 1..(r - 1) : TasksOf("persist", q) # {}
    /\ Submit("persist", r)
    /\ UNCHANGED <<t_threading, t_wait, t_before, nontvars>>

\* _on_llm_end / _on_llm_error: self._submit(self._update_run_single, _copy(run))
OnRunEnd(r) ==
    /\ t_pc = "idle"
    /\ TasksOf("persist", r) # {} /\ TasksOf("update", r) = {}
    /\ Submit("update", r)
    /\ UNCHANGED <<t_threading, t_wait, t_before, nontvars>>

\* a worker thread of the executor takes the oldest work item of the queue
WorkerTakes(i) ==
    /\ i \in 1..Len(t_tasks) /\ t_tasks[i].st = "queued"
    /\ \A j \in 1..(i - 1) : t_tasks[j].st # "queued"
    /\ Cardinality({j \in 1..Len(t_tasks) : t_tasks[j].st = "running"}) < MaxWorkers
    /\ t_tasks' = [t_tasks EXCEPT ![i].st = "running"]
    /\ UNCHANGED <<t_threading, t_pc, t_wait, t_before, nontvars>>

\* client.create_run / client.update_run is made and returns, or it raises and
\* the function re-raises (into its future, or into the callback)
FunctionEnds(i, st) ==
    /\ i \in 1..Len(t_tasks) /\ t_tasks[i].st = "running"
    /\ t_tasks' = [t_tasks EXCEPT ![i].st = st]
    /\ t_pc' = "idle"
    /\ UNCHANGED <<t_threading, t_wait, t_before, nontvars>>

\* wait_for_all_tracers(): for tracer in list(_TRACERS)
WaitForAllTracers ==
    /\ t_wait = 0 /\ t_pc = "idle"
    /\ t_wait' = 1 /\ t_before' = Len(t_tasks)
    /\ UNCHANGED <<t_threading, t_tasks, t_pc, nontvars>>

\* self._futures of tracer k: the futures of the functions it submitted to the
\* executor
FuturesOf(k) ==
    {i \in 1..Len(t_tasks) : t_threading /\ TracerOf(t_tasks[i].run) = k}

\* a wait that returns when the first future is done
FirstCompleted(fs) == fs = {} \/ \E i \in fs : Finished(t_tasks[i])

\* concurrent.futures.wait(fs): returns when all the futures are done
AllCompleted(fs) == \A i \in fs : Finished(t_tasks[i])

\* tracer.wait_for_futures(): wait(self._futures) returns, next tracer
WaitForFutures ==
    /\ t_wait \in Tracers
    /\ AllCompleted(FuturesOf(t_wait))
    /\ t_wait' = t_wait + 1
    /\ UNCHANGED <<t_threading, t_tasks, t_pc, t_before, nontvars>>

NextTracer ==
    \/ \E r \in 1..MaxTracedRuns : OnRunStart(r)
    \/ \E r \in 1..MaxTracedRuns : OnRunEnd(r)
    \/ \E i \in 1..(2 * MaxTracedRuns) : WorkerTakes(i)
    \/ \E i \in 1..(2 * MaxTracedRuns), st \in {"done", "failed"} : FunctionEnds(i, st)
    \/ WaitForAllTracers
    \/ WaitForFutures

SpecTracer == InitTracer /\ [][NextTracer]_vars

-----------------------------------------------------------------------------
(* LangChainTracer.get_run_url: the Retrying loop around client.get_run_url *)

\* self.latest_run = None of __init__
NoLatestRun == 0

\* stop=stop_after_attempt(5)
StopAfterAttempt == 5

\* what one client.get_run_url call can do: return the URL, or raise
ClientOutcomes == {"url", "LangSmithError", "KeyError"}

NoUrlResult == [kind |-> "none", run |-> NoLatestRun]

InitUrl ==
    /\ IdleExcept("url")
    /\ u_latest = NoLatestRun /\ u_pc = "idle" /\ u_seen = NoLatestRun
    /\ u_outcomes = <<>> /\ u_result = NoUrlResult

\* _persist_run: self.latest_run = run_
PersistRun(r) ==
    /\ r \in 1..MaxTracedRuns
    /\ u_latest' = r
    /\ UNCHANGED <<u_pc, u_seen, u_outcomes, u_result, nonuvars>>

\* get_run_url entered: if not self.latest_run: raise ValueError
GetRunUrl ==
    /\ u_pc = "idle"
    /\ u_seen' = u_latest /\ u_outcomes' = <<>>
    /\ IF u_latest = NoLatestRun
         THEN u_pc' = "idle" /\ u_result' = [kind |-> "ValueError", run |-> NoLatestRun]
         ELSE u_pc' = "attempting" /\ u_result' = NoUrlResult
    /\ UNCHANGED <<u_latest, nonuvars>>

\* a retry condition that retries after every exception
RetryIfException(o) == o # "url"

\* retry=retry_if_exception_type(ls_utils.LangSmithError)
RetryIf(o) == o = "LangSmithError"

\* one pass of the Retrying loop: with attempt: return self.client.get_run_url(...)
Attempt(o) ==
    /\ u_pc = "attempting" /\ o \in ClientOutcomes
    /\ u_outcomes' = Append(u_outcomes, [kind |-> o, run |-> u_latest])
    /\ IF o = "url"
         THEN u_pc' = "idle" /\ u_result' = [kind |-> "url", run |-> u_latest]
         ELSE IF ~RetryIf(o)
           THEN u_pc' = "idle" /\ u_result' = [kind |-> o, run |-> u_latest]
           ELSE IF Len(u_outcomes) + 1 >= StopAfterAttempt
             THEN u_pc' = "idle" /\ u_result' = [kind |-> "RetryError", run |-> u_latest]
             ELSE u_pc' = "attempting" /\ u_result' = u_result
    /\ UNCHANGED <<u_latest, u_seen, nonuvars>>

NextUrl ==
    \/ \E r \in 1..MaxTracedRuns : PersistRun(r)
    \/ GetRunUrl
    \/ \E o \in ClientOutcomes : Attempt(o)

SpecUrl == InitUrl /\ [][NextUrl]_vars

-----------------------------------------------------------------------------
(* ToTChain.solve: one round per checker verdict; ToTMemory.store and the    *)
(* ToTController's backtracking.                                             *)

\* largest controller parameter c
MaxChildren == 2
\* ToTChain.k, the number of rounds of solve
MaxRounds == 4

SolutionType == {"VALID_INTERMEDIATE", "VALID_FINAL", "INVALID"}

InitTot ==
    /\ IdleExcept("tot")
    /\ tot_c \in 1..MaxChildren
    /\ tot_stack = <<>> /\ tot_nodes = <<>> /\ tot_pc = "solving"

\* ToTMemory.pop(n): nothing when the stack is shorter than n
Pop(stack, n) == IF Len(stack) < n THEN stack ELSE SubSeq(stack, 1, Len(stack) - n)

\* ToTMemory.store(node): the node becomes a child of the top of the stack
\* and is pushed
StoredNodes(nodes, stack, type) ==
    LET new == Len(nodes) + 1
        linked == IF Len(stack) > 0
                    THEN [nodes EXCEPT ![stack[Len(stack)]].children = @ \cup {new}]
                    ELSE nodes
    IN  Append(linked, [solution_type |-> type, children |-> {}])

\* ToTController.__call__(memory), the stack holding the node just stored:
\* the stack it leaves
Controller(stack, nodes, c) ==
    LET type == nodes[stack[Len(stack)]].solution_type
    IN  IF type = "INVALID"
          THEN Pop(stack, 1)
          ELSE IF /\ type = "VALID_INTERMEDIATE"
                  /\ Len(stack) > 1
                  /\ Cardinality(nodes[stack[Len(stack) - 1]].children) >= c
            THEN Pop(stack, 2)
            ELSE stack

\* one round of solve whose verdict is VALID_FINAL: return result.solution
SolveReturnsFinal ==
    /\ tot_pc = "solving" /\ Len(tot_nodes) < MaxRounds
    /\ tot_pc' = "solved"
    /\ UNCHANGED <<tot_c, tot_stack, tot_nodes, nontotvars>>

\* one round of solve with another verdict: memory.store(result), then
\* controller(memory)
SolveRound(type) ==
    /\ tot_pc = "solving" /\ Len(tot_nodes) < MaxRounds
    /\ type \in SolutionType \ {"VALID_FINAL"}
    /\ LET nodes == StoredNodes(tot_nodes, tot_stack, type)
           stack == Append(tot_stack, Len(nodes))
       IN  /\ tot_nodes' = nodes
           /\ tot_stack' = Controller(stack, nodes, tot_c)
    /\ UNCHANGED <<tot_c, tot_pc, nontotvars>>

\* for _ in range(self.k) is exhausted: return None
SolveGivesUp ==
    /\ tot_pc = "solving" /\ Len(tot_nodes) >= MaxRounds
    /\ tot_pc' = "exhausted"
    /\ UNCHANGED <<tot_c, tot_stack, tot_nodes, nontotvars>>

NextTot ==
    \/ SolveReturnsFinal
    \/ \E type \in SolutionType : SolveRound(type)
    \/ SolveGivesUp

SpecTot == InitTot /\ [][NextTot]_vars

-----------------------------------------------------------------------------
(* WandbCallbackHandler: every event method updates the counters of          *)
(* BaseMetadataCallbackHandler in its first statements.                      *)

\* most events one handler receives
MaxEvents == 3

WandbCounters ==
    {"step", "starts", "ends", "errors", "text_ctr", "chain_starts", "chain_ends",
     "llm_starts", "llm_ends", "llm_streams", "tool_starts", "tool_ends", "agent_ends"}

WandbEvents ==
    {"on_llm_start", "on_llm_new_token", "on_llm_end", "on_llm_error",
     "on_chain_start", "on_chain_end", "on_chain_error",
     "on_tool_start", "on_tool_end", "on_tool_error",
     "on_text", "on_agent_finish", "on_agent_action"}

\* the event methods with statements after the counters, which can raise
\* (on_chain_start: inputs["input"], ValueError("Unexpected data format"))
WandbBodies == WandbEvents \ {"on_llm_error", "on_chain_error", "on_tool_error"}

InitWandb ==
    /\ IdleExcept("wandb")
    /\ w_meta = [k \in WandbCounters |-> 0]
    /\ w_events = 0 /\ w_raised = FALSE

\* event methods in which on_agent_action counts a tool start only
CountersWithoutActionStart(ev) ==
    CASE ev = "on_llm_start"     -> {"step", "llm_starts", "starts"}
      [] ev = "on_llm_new_token" -> {"step", "llm_streams"}
      [] ev = "on_llm_end"       -> {"step", "llm_ends", "ends"}
      [] ev = "on_chain_start"   -> {"step", "chain_starts", "starts"}
      [] ev = "on_chain_end"     -> {"step", "chain_ends", "ends"}
      [] ev = "on_tool_start"    -> {"step", "tool_starts", "starts"}
      [] ev = "on_tool_end"      -> {"step", "tool_ends", "ends"}
      [] ev = "on_text"          -> {"step", "text_ctr"}
      [] ev = "on_agent_finish"  -> {"step", "agent_ends", "ends"}
      [] ev = "on_agent_action"  -> {"step", "tool_starts"}
      [] OTHER                   -> {"step", "errors"}

\* the counters an event method increments by one
CountersOf(ev) ==
    CASE ev = "on_llm_start"     -> {"step", "llm_starts", "starts"}
      [] ev = "on_llm_new_token" -> {"step", "llm_streams"}
      [] ev = "on_llm_end"       -> {"step", "llm_ends", "ends"}
      [] ev = "on_chain_start"   -> {"step", "chain_starts", "starts"}
      [] ev = "on_chain_end"     -> {"step", "chain_ends", "ends"}
      [] ev = "on_tool_start"    -> {"step", "tool_starts", "starts"}
      [] ev = "on_tool_end"      -> {"step", "tool_ends", "ends"}
      [] ev = "on_text"          -> {"step", "text_ctr"}
      [] ev = "on_agent_finish"  -> {"step", "agent_ends", "ends"}
      [] ev = "on_agent_action"  -> {"step", "tool_starts", "starts"}
      [] OTHER                   -> {"step", "errors"}

\* one event method is called: the counters, then the rest of the body, which
\* returns or raises
WandbEvent(ev, raises) ==
    /\ w_events < MaxEvents
    /\ ev \in WandbEvents /\ (raises => ev \in WandbBodies)
    /\ w_meta' = [k \in WandbCounters |->
                     IF k \in CountersOf(ev) THEN w_meta[k] + 1 ELSE w_meta[k]]
    /\ w_events' = w_events + 1
    /\ w_raised' = raises
    /\ UNCHANGED nonwvars

NextWandb == \E ev \in WandbEvents, raises \in BOOLEAN : WandbEvent(ev, raises)

SpecWandb == InitWandb /\ [][NextWandb]_vars

-----------------------------------------------------------------------------
(* Properties of the managers, checked under Spec *)

Range(q) == {q[j] : j \in 1..Len(q)}

\* a dispatch has ended and control is back in the caller of the on_* method
DispatchOver == d_pc = "idle" /\ d_outcome # "none"

\* the handlers the current dispatch is made to: the live list of the sync
\* manager, the coroutines handed to gather of the async manager
Recipients == IF is_async THEN [k \in 1..Len(tasks) |-> tasks[k].h] ELSE handlers

EligiblePositions ==
    {k \in 1..Len(Recipients) : Eligible(Recipients[k], d_event, d_verbose)}

\* C1: an exception raised inside a handler's event method never propagates
\* out of a dispatch call of CallbackManager or AsyncCallbackManager: every
\* dispatch returns normally to its caller.
C1_HandlerErrorNeverEscapes == d_outcome # "raised"

\* C2: in the synchronous CallbackManager, when a dispatch is over, every
\* handler of the list that passes the ignore / verbosity filter has had its
\* event method invoked for that event, whether or not another handler raised.
C2_SiblingsStillInvoked ==
    (~is_async /\ DispatchOver) => EligiblePositions \subseteq Range(d_invoked)

\* the ignore flag of handler h that belongs to the family of event ev
OwnFamilyIgnored(h, ev) ==
    \/ ev \in LLMEvents /\ ignore_llm(h)
    \/ ev \in ChainEvents /\ ignore_chain(h)
    \/ ev \in ToolEvents \cup AgentEvents /\ ignore_agent(h)

\* C6: in both managers a handler's event method is invoked only if the
\* dispatch's verbose argument is true or the handler is always_verbose (so a
\* handler that is not always_verbose receives nothing from a dispatch with
\* verbose false), and a handler that is always_verbose and has no matching
\* ignore flag has received the event of every dispatch that is over, whatever
\* the verbose argument was.
C6_VerbosityGating ==
    /\ \A k \in Range(d_invoked) : d_verbose \/ always_verbose(Recipients[k])
    /\ DispatchOver =>
        \A k \in 1..Len(Recipients) :
            (always_verbose(Recipients[k]) /\ ~OwnFamilyIgnored(Recipients[k], d_event))
                => k \in Range(d_invoked)

\* C7: a handler is never invoked for an event of a family it ignores, and a
\* handler has received the event of every dispatch that is over unless the
\* flag of that event's own family is set on it (verbosity permitting): with
\* ignore_llm set it receives no on_llm_* event and still every on_chain_* and
\* on_tool_* event.
C7_IgnoreGating ==
    /\ \A k \in Range(d_invoked) : ~OwnFamilyIgnored(Recipients[k], d_event)
    /\ DispatchOver =>
        \A k \in 1..Len(Recipients) :
            (~OwnFamilyIgnored(Recipients[k], d_event)
                /\ (d_verbose \/ always_verbose(Recipients[k])))
                => k \in Range(d_invoked)

\* C8: in CallbackManager, at every point of a dispatch the event methods
\* invoked so far are those of the eligible handlers among the list positions
\* the loop has reached, in list order (constructor order followed by
\* add_handler order); while a handler's method runs it is the last one
\* invoked, so handler k+1 is invoked only after handler k has returned.
C8_RegistrationOrder ==
    (~is_async /\ d_pc \in {"loop", "in_handler"}) =>
        LET upto == IF d_pc = "in_handler" THEN d_i ELSE d_i - 1
            IsEligible(j) == Eligible(handlers[j], d_event, d_verbose)
        IN  d_invoked = SelectSeq([j \in 1..upto |-> j], IsEligible)

\* C8 witness: a synchronous dispatch over three handlers has reached the end
\* of the list with two handlers invoked and one filtered out
C8_Witness ==
    /\ ~is_async /\ d_pc = "loop" /\ d_i > Len(handlers)
    /\ Len(handlers) = 3 /\ Len(d_invoked) = 2

\* C9: when a dispatch of AsyncCallbackManager returns to its caller, every
\* coroutine handed to gather is done and every eligible handler's event method
\* (awaited coroutine or executor-offloaded call) has been invoked and has
\* completed, whatever the completion order was.
C9_GatherIsJoin ==
    (is_async /\ DispatchOver /\ d_outcome = "returned") =>
        /\ \A k \in 1..Len(tasks) : tasks[k].st = "done"
        /\ EligiblePositions \subseteq Range(d_invoked)

\* C9 witness: an asynchronous dispatch returned after invoking an awaited
\* coroutine method and an executor-offloaded synchronous method
C9_Witness ==
    /\ is_async /\ DispatchOver /\ d_outcome = "returned"
    /\ \E j, k \in Range(d_invoked) :
        iscoroutinefunction(tasks[j].h) /\ ~iscoroutinefunction(tasks[k].h)

\* C10: in AsyncCallbackManager, when a handler's event method raises, all the
\* sibling invocations for that event have run to completion by the time the
\* dispatch call raises into its caller.
C10_SiblingsCompleteBeforeRaise ==
    (is_async /\ DispatchOver /\ d_outcome = "raised") =>
        \A k \in 1..Len(tasks) : ~Running(tasks, k)


\* the first step of a pending coroutine of the gather
StartNextTask == TaskSkip \/ TaskAwaitCoroutine \/ TaskRunInExecutor

\* C12: in AsyncCallbackManager an event method that is a coroutine function
\* is awaited on the event loop and a synchronous event method only ever runs
\* in the executor; and while a synchronous handler is still executing
\* (blocked), the coroutines not yet started can start and the handlers being
\* awaited can complete.
C12_SyncHandlersOffloaded ==
    is_async =>
        \A k \in 1..Len(tasks) :
            /\ tasks[k].st = "awaiting" => tasks[k].h \in CoroutineHandlers
            /\ tasks[k].st = "executing" => tasks[k].h \notin CoroutineHandlers
            /\ (tasks[k].st = "executing" /\ d_pc = "gather") =>
                /\ FirstPending(tasks) # 0 => ENABLED StartNextTask
                /\ \A j \in 1..Len(tasks) :
                    tasks[j].st = "awaiting" => ENABLED TaskCompletes(j)

\* C12 witness: a synchronous handler is still executing in the executor while
\* a coroutine handler started after it has been awaited to completion
C12_Witness ==
    /\ is_async /\ d_pc = "gather"
    /\ \E k, j \in 1..Len(tasks) :
        /\ k < j
        /\ tasks[k].st = "executing" /\ tasks[k].h \notin CoroutineHandlers
        /\ tasks[j].st = "done" /\ tasks[j].h \in CoroutineHandlers
        /\ j \in Range(d_invoked)

\* C17: on_text passes ignore_condition_name None, so only the verbosity test
\* applies to it: in both managers no handler invoked for on_text fails the
\* verbosity test, and when an on_text dispatch is over every handler that
\* passes the verbosity test has been invoked, whatever its ignore_llm,
\* ignore_chain and ignore_agent flags are.
C17_OnTextReachesEveryHandler ==
    d_event = "on_text" =>
        /\ \A k \in Range(d_invoked) : PassesVerbose(Recipients[k], d_verbose)
        /\ DispatchOver =>
            \A k \in 1..Len(Recipients) :
                PassesVerbose(Recipients[k], d_verbose) => k \in Range(d_invoked)

-----------------------------------------------------------------------------
(* Properties of the traced runs, checked under SpecRuns *)

\* the run_id of the run that directly encloses run i (NoRun at top level)
EnclosingRunId(i) ==
    IF r_origin[i].enclosing = NoRun THEN NoRun ELSE r_runs[r_origin[i].enclosing].id

\* the number of runs enclosing run i
RECURSIVE Depth(_)
Depth(i) == IF r_runs[i].parent_run_id = NoRun THEN 0 ELSE 1 + Depth(r_runs[i].parent_run_id)

\* the top-level run of the tree run i belongs to
RECURSIVE RootOf(_)
RootOf(i) == IF r_runs[i].parent_run_id = NoRun THEN i ELSE RootOf(r_runs[i].parent_run_id)

\* C13: the manager returned by get_child of run A's scoped manager carries
\* A's run_id as parent_run_id, and at every moment every run's parent_run_id
\* is the run_id of the run that directly enclosed it when it was created
\* (none for a top-level run): nesting keeps the chain at every depth and a
\* parent_run_id never changes after the run is created.
C13_ParentIsEnclosingRun ==
    /\ r_mgr.kind = "child" => r_mgr.parent_run_id = r_runs[InnermostOpen].id
    /\ \A i \in 1..Len(r_runs) : r_runs[i].parent_run_id = EnclosingRunId(i)

\* C13 witness: three runs nested three levels deep, the innermost one over
C13_Witness ==
    /\ Len(r_runs) = 3 /\ Depth(3) = 2
    /\ r_runs[3].parent_run_id = r_runs[2].id /\ r_runs[2].parent_run_id = r_runs[1].id
    /\ r_runs[3].ended

-----------------------------------------------------------------------------
(* Properties of generate / agenerate, checked under SpecGen *)

TerminalEvents == {"on_llm_end", "on_llm_error"}

\* control has left generate / agenerate, by return or by an exception
CallOver == g_pc \in {"returned", "raised"}

\* C3: every call of generate or agenerate that has dispatched
\* on_chat_model_start has dispatched on_llm_end or on_llm_error for the run by
\* the time control leaves the call, on every path.
C3_TerminalBeforeLeaving ==
    CallOver => \E i \in 1..Len(g_events) : g_events[i].ev \in TerminalEvents

\* C4: once on_llm_end or on_llm_error has been dispatched on the run manager
\* no further event is dispatched for the run (so a run never receives both an
\* end and an error event): a terminal event is the last event of the run.
C4_NothingAfterTerminal ==
    \A i \in 1..Len(g_events) :
        g_events[i].ev \in TerminalEvents => i = Len(g_events)

\* C5: when the traced work raises E, the error event carrying E has been
\* dispatched on the run manager, as the last event of the run, when E
\* propagates to the caller, on both generation blocks of generate and agenerate.
C5_ErrorDispatchedThenReraised ==
    (g_pc = "raised" /\ g_exc \in WorkExceptions \cup BedrockExceptions) =>
        /\ g_events # <<>>
        /\ g_events[Len(g_events)] = [ev |-> "on_llm_error", arg |-> g_exc]

\* C19: a KeyboardInterrupt raised by the traced work of generate or agenerate
\* is reported to the run before it goes on: when control is at raise e, and
\* when the interrupt has left the call, the last event dispatched on the run
\* manager is on_llm_error carrying the interrupt.
C19_InterruptReportedThenReraised ==
    (g_exc = "KeyboardInterrupt" /\ g_pc \in {"reraise", "raised"}) =>
        \E i \in 1..Len(g_events) :
            /\ i = Len(g_events)
            /\ g_events[i] = [ev |-> "on_llm_error", arg |-> "KeyboardInterrupt"]

\* C22: a call of generate or agenerate whose generation succeeds (the work
\* raises nothing and the model does not ask for a cache that is not there)
\* returns, and the results its LLMResult is built from are one ChatResult per
\* input message list, entry i being that of message list i, whether the
\* global cache is absent, disregarded, partly hit or fully hit.
C22_OneGenerationListPerInput ==
    (CallOver /\ g_exc \notin WorkExceptions \cup BedrockExceptions
                              \cup {"ValueError: Asked to cache, but no cache found"})
        => /\ g_pc = "returned"
           /\ g_results = Bound([i \in 1..g_cfg.n |-> [kind |-> "ChatResult", idx |-> i]])

-----------------------------------------------------------------------------
(* Properties of the two managers side by side, checked under SpecBridge *)

\* a handler whose event methods are plain functions that never raise
PurelySynchronous(h) == ~iscoroutinefunction(h) /\ ~CanRaise(h)

\* C11: for a purely synchronous, non-raising handler, what the handler
\* receives (event name, positional arguments, keyword arguments) from a
\* dispatch through AsyncCallbackManager is what it receives from the same
\* dispatch through CallbackManager, for every dispatch of a sequence.
C11_BridgingEquivalence ==
    \A k \in 1..Len(br_handlers) :
        PurelySynchronous(br_handlers[k]) => br_async[k] = br_sync[k]

-----------------------------------------------------------------------------
(* Properties of the configuration resolver, checked under SpecConfigure *)

-----------------------------------------------------------------------------
(* Properties of log_error_once, checked under SpecLog *)

\* the log records emitted for one (method, exception type) pair
RecordsOf(pair) == Len(SelectSeq(lg_records, LAMBDA r : r = pair))

\* no thread is inside log_error_once
LoggingQuiet == \A t \in DOMAIN lg_threads : lg_threads[t].pc = "idle"

\* C18: over any sequence of failures no (method, exception type) pair has
\* more than one log record, and once every failure has been handled each pair
\* that failed, whatever its method and its exception type, has exactly one.
C18_LoggedOncePerPair ==
    \A pair \in LogMethods \X ExceptionTypes :
        /\ RecordsOf(pair) <= 1
        /\ (LoggingQuiet /\ \E j \in 1..Len(lg_failed) : lg_failed[j] = pair)
               => RecordsOf(pair) = 1

-----------------------------------------------------------------------------
(* Properties of the public entry points, checked under SpecEntry *)

\* configure has resolved the manager of the call
Configured == g_pc \notin {"off", "entry"} \/ e_pc \notin {"off", "entry"}

\* the start event of the call has been dispatched
StartDispatched ==
    \/ \E i \in 1..Len(g_events) : g_events[i].ev = "on_chat_model_start"
    \/ \E i \in 1..Len(e_events) : e_events[i].ev = "on_embedding_start"

\* the component's own work has been entered
WorkBegun ==
    \/ g_block > 0 \/ g_results.bound \/ g_exc \in WorkExceptions
    \/ e_result.bound \/ e_exc # "none"

\* the entry point can still call the component's work
WorkPending == InBlock \/ e_pc \in {"entry", "configured", "started"}

\* the entry point has dispatched the terminal event of the call
TerminalDispatched ==
    \/ \E i \in 1..Len(g_events) : g_events[i].ev \in TerminalEvents
    \/ \E i \in 1..Len(e_events) :
          e_events[i].ev \in {"on_embedding_end", "on_embedding_error"}

-----------------------------------------------------------------------------
(* Properties of the embeddings entry points, checked under SpecEmbed *)

\* the terminal calls run manager k has received
TerminalCalls(k) ==
    SelectSeq(e_events, LAMBDA c : c.rm = k /\ c.ev \in {"on_embedding_end", "on_embedding_error"})

\* C21: in embed_documents and aembed_documents no run manager ever receives
\* more than one terminal call, and when control has left the entry point
\* every run manager returned by on_embedding_start has received exactly one:
\* on_embedding_end if the work returned, on_embedding_error if it raised,
\* whatever the number of texts and the length of the result.
C21_OneTerminalCallPerRunManager ==
    e_cfg.entry \in EmbedEntryPoints \ QueryEntryPoints =>
        \A k \in RunManagers(e_cfg.n) :
            /\ Len(TerminalCalls(k)) <= 1
            /\ e_pc = "returned" =>
                   TerminalCalls(k) = <<[ev |-> "on_embedding_end", rm |-> k]>>
            /\ e_pc = "raised" =>
                   TerminalCalls(k) = <<[ev |-> "on_embedding_error", rm |-> k]>>

-----------------------------------------------------------------------------
(* Properties of managers built over one list, checked under SpecShare *)

\* C23: two managers built over the same handler list iterate, after any
\* sequence of add_handler, remove_handler and set_handlers calls on either of
\* them, over the same handlers in the same order.
C23_SharedListStaysShared ==
    \A m1 \in SharingManagers, m2 \in SharingManagers : HandlersOf(m1) = HandlersOf(m2)

-----------------------------------------------------------------------------
(* Properties of a dispatch with a changing list, checked under SpecMutate *)

\* the eligible handlers of a list, in list order
EligibleOf(hs) ==
    SelectSeq(hs, LAMBDA h : Eligible(h, MutatingEvent, m_verbose))

\* C24: when a dispatch of the synchronous CallbackManager is over, the event
\* has been delivered exactly once to every eligible handler that was in the
\* list when the dispatch began and to no other handler, also when handlers
\* called add_handler or remove_handler from inside their event methods.
C24_SyncRecipientsFixedAtStart ==
    (~m_async /\ m_pc = "over") => m_delivered = EligibleOf(m_start)

\* C25: the coroutines of an AsyncCallbackManager dispatch are bound to the
\* handlers that were in the list when the dispatch call was made, and when
\* the dispatch is over the event has been delivered to exactly the eligible
\* ones among them, whatever add_handler, remove_handler and set_handlers
\* calls were made on the manager while the dispatch was suspended.
C25_AsyncRecipientsFixedAtStart ==
    m_async =>
        /\ m_pc = "gather" => [k \in 1..Len(m_tasks) |-> m_tasks[k].h] = m_start
        /\ m_pc = "over" => m_delivered = EligibleOf(m_start)

\* an async dispatch that delivered the event and is over, with the list
\* changed in the meantime
C25_Witness ==
    /\ m_async /\ m_pc = "over" /\ m_delivered # <<>>
    /\ m_handlers # m_start
    /\ EligibleOf(m_handlers) # EligibleOf(m_start)

-----------------------------------------------------------------------------
(* Properties of the tracer's submitted functions, checked under SpecTracer *)

\* C26: with use_threading enabled, for every run the update_run request
\* submitted at the run's end is never finished while the create_run request
\* submitted at its start has not been executed, whatever the scheduling of
\* the executor's threads.
C26_CreateBeforeUpdate ==
    t_threading =>
        \A i \in 1..Len(t_tasks), j \in 1..Len(t_tasks) :
            (t_tasks[i].kind = "persist" /\ t_tasks[j].kind = "update"
                 /\ t_tasks[i].run = t_tasks[j].run /\ Finished(t_tasks[j]))
                => Finished(t_tasks[i])

\* wait_for_all_tracers has returned
WaitReturned == t_wait \notin Tracers \cup {0}

\* C27: when wait_for_all_tracers has returned, every function submitted
\* before it was called has finished, by success or by failure; and with
\* use_threading off every submitted function has finished whenever no tracer
\* callback is running.
C27_WaitCoversSubmittedTasks ==
    /\ WaitReturned => \A i \in 1..t_before : Finished(t_tasks[i])
    /\ (~t_threading /\ t_pc = "idle") => \A i \in 1..Len(t_tasks) : Finished(t_tasks[i])

\* the wait returned after functions of both tracers were submitted to the
\* executor before the call, one of which failed
C27_Witness ==
    /\ t_threading /\ WaitReturned /\ t_before >= 2
    /\ \E i \in 1..t_before : t_tasks[i].st = "failed"
    /\ \E i \in 1..t_before : TracerOf(t_tasks[i].run) = 2

-----------------------------------------------------------------------------
(* Properties of get_run_url, checked under SpecUrl *)

\* C30: a get_run_url call that found no persisted run raised ValueError and
\* made no client call; otherwise at most 5 client calls are made, every call
\* but the last one failed with LangSmithError, a call that returned a URL is
\* the last one and its URL is the result, and a call that raised another
\* exception is the last one and that exception is the result.
C30_RunUrlAttempts ==
    /\ Len(u_outcomes) <= 5
    /\ \A i \in 1..(Len(u_outcomes) - 1) : u_outcomes[i].kind = "LangSmithError"
    /\ (u_pc = "idle" /\ u_seen = NoLatestRun /\ u_result # NoUrlResult)
           => u_result.kind = "ValueError" /\ u_outcomes = <<>>
    /\ u_result.kind = "ValueError" => u_seen = NoLatestRun /\ u_outcomes = <<>>
    /\ u_pc = "attempting" =>
           \A i \in 1..Len(u_outcomes) : u_outcomes[i].kind = "LangSmithError"
    /\ (u_outcomes # <<>> /\ u_outcomes[Len(u_outcomes)].kind # "LangSmithError")
           => u_pc = "idle" /\ u_result = u_outcomes[Len(u_outcomes)]

\* a call that found a persisted run returned the URL at its third attempt,
\* after two attempts that failed with LangSmithError
C30_Witness ==
    /\ u_seen # NoLatestRun /\ u_pc = "idle"
    /\ Len(u_outcomes) = 3 /\ u_result.kind = "url"
-----------------------------------------------------------------------------
(* Properties of the thought tree, checked under SpecTot *)

\* C28: no node of the thought tree ever has more than c children, c the
\* parameter of the ToTController.
C28_AtMostCChildren ==
    \A i \in 1..Len(tot_nodes) : Cardinality(tot_nodes[i].children) <= tot_c

-----------------------------------------------------------------------------
(* Properties of the W&B handler's counters, checked under SpecWandb *)

\* C29: after any sequence of events, also when the body of an event method
\* raised, step is the number of events received, starts is the sum of the
\* llm, chain and tool starts, ends is the sum of the llm, chain, tool and
\* agent ends, and step is the sum of starts, ends, errors, text_ctr and
\* llm_streams.
C29_CountersAddUp ==
    /\ w_meta.step = w_events
    /\ w_meta.starts = w_meta.llm_starts + w_meta.chain_starts + w_meta.tool_starts
    /\ w_meta.ends = w_meta.llm_ends + w_meta.chain_ends + w_meta.tool_ends + w_meta.agent_ends
    /\ w_meta.step = w_meta.starts + w_meta.ends + w_meta.errors + w_meta.text_ctr
                         + w_meta.llm_streams

\* three events were received, among them a tool start or agent action and an
\* error, and the body of the last one raised
C29_Witness ==
    /\ w_events = 3 /\ w_raised
    /\ w_meta.tool_starts >= 1 /\ w_meta.errors >= 1

====
